---- MODULE Spec2Model ----
(***************************************************************************)
(* Supervisor core of the Telegram inbox / project-manager bots.           *)
(*                                                                         *)
(* Spec        the notify pipeline of telegram_multiproject_inbox_bot.py:  *)
(*             directory watcher thread, dedup store, send coroutines on   *)
(*             the event loop, retry queue and its redrive worker,         *)
(*             startup scan and process restart.                           *)
(* SpecStatus  the derived lifecycle state of                              *)
(*             telegram_project_manager_bot.py (get_project_status).       *)
(***************************************************************************)
EXTENDS Integers, Sequences, FiniteSets, Bags, TLC

(***************************************************************************)
(* Bounds of the model                                                     *)
(***************************************************************************)
\* writes and deletions the worker makes to the outbound directory
MaxWrites == 2
\* supervisor restarts
MaxRestarts == 1
\* invocations of process_new_message (files observed as new)
MaxObs == 2
\* status queries kept in the history of SpecStatus
MaxQueries == 2
\* lifecycle commands issued in SpecLifecycle
MaxCmds == 3
\* longest text handed to split_message in SpecSplit
MaxText == 7
\* max_length of split_message (4096 in the source), scaled down
MaxLength == 3
\* ephemeral jobs asked in SpecJobs
MaxJobs == 2
\* last second of the clock of SpecJobs
MaxTime == 11
\* last second at which a question is asked in SpecJobs
LastAsk == 1
\* the max_wait argument of monitor_temp_container (300 by default), seconds
MaxWait == 6
\* created-events handled in SpecInboxWatcher
MaxEvents == 3
\* times an inbox file is written again in SpecInboxWatcher
MaxMtime == 1
\* retry items put in SpecRetryQueue
MaxPut == 3
\* entries of a retry_queue.json found at startup in SpecLoad
MaxItems == 2
\* attempts at sending one payload in SpecChunks
MaxAttempts == 2
\* lines of the log tail in SpecProgress
MaxLines == 2
\* lines of a log in SpecExtract
MaxLog == 4
\* the number of lines of the fallback (20 in the code), scaled to MaxLog
FallbackLines == 2
\* the length names are cut to in callback data (20 in the code)
NameCut == 2
\* questions kept per project (10 in the code)
HistoryLimit == 2
\* human messages accepted in SpecInbound
MaxMsgs == 3
\* the largest max_retries given in a context in SpecMware
MaxRetriesArg == 3
\* calls of the wrapped handler whose outcome is listed in SpecMware
MaxScript == 3

(***************************************************************************)
(* Program constants                                                       *)
(***************************************************************************)
\* send_telegram_message_safe: "if retry_count < 3"
MaxRetries == 3
\* retry_worker: "if retry_count <= 3"
MaxRedriveCount == 3
\* _launch_in_thread: "output[:200]"
LaunchErrorLimit == 200
\* monitor_temp_container: "await asyncio.sleep(5)", seconds
PollSleep == 5

Files == {"m1.md"}
\* "short": len(message) <= 4096, one send; "long": split into two chunks
Contents == {"short", "long"}
NoContent == "absent"
SendOutcomes == {"ok", "error", "flood"}

NumParts(c) == IF c = "long" THEN 2 ELSE 1

VARIABLES
    \* ---- notify pipeline (multi-project bot) ----
    disk,          \* outbound directory: file -> [content, mtime]
    processed,     \* <project>_processed.json: (name, mtime) key -> stored hash
    queue,         \* RetryQueue.queue (in memory)
    queueFile,     \* retry_queue.json
    tasks,         \* send_telegram_message_safe coroutines alive on the loop
    watcher,       \* the observer thread running process_event
    events,        \* created-events not yet dispatched to the handler
    scanTodo,      \* files the startup scan coroutine has still to look at
    workerStarted, \* the retry_worker task has run its first round
    epoch,         \* number of restarts so far
    nWrites,       \* number of worker writes so far
    \* ---- history of the pipeline ----
    obsLog,        \* one entry per process_new_message call
    delivered,     \* per observation: complete successful sends
    dropped,       \* items given up at retry_count >= 3: [obs, epoch, att]
    okAfter,       \* observations whose send succeeded at retry_count < 3
    permFail,      \* observations logged "Max retries exceeded"
    everHad,       \* file -> contents it was ever written with
    markedUnchanged, \* file -> marked seen before the last restart, unchanged since
    redelivered,   \* files delivered again while markedUnchanged
    \* ---- lifecycle status (project manager bot) ----
    container,     \* project -> raw introspection of the external manager
    statusLog,     \* history of get_project_status results
    \* ---- lifecycle commands (project manager bot, container launcher) ----
    menu,          \* action buttons on the operator's last project keyboard
    cmds,          \* project_manager.sh commands running in executor threads
    handler,       \* the update handler (updates are handled one at a time)
    batch,         \* the background task of a batch operation
    reports,       \* what callers were told about their commands
    launches,      \* ProjectLauncher.active_launches[project]['status']
    nCmds,         \* number of commands issued so far
    \* ---- ephemeral jobs (project manager bot) ----
    now,           \* time.time(), in ticks
    jobs,          \* the _start_and_monitor_container tasks, in asking order
    instances,     \* disposable instance name -> absent / running / exited
    botRunning,    \* ProjectManagerBot.running
    \* ---- split_message (inbox bot) ----
    message,       \* the text handed to split_message
    parts,         \* the chunks it returned, <<>> before the call
    \* ---- configured projects and their observers (inbox bot) ----
    projects,      \* config.projects in dict order: [name, path, enabled]
    observers,     \* observers: project name -> directory its Observer watches
    lastEvent,     \* the last created-event and the project process_event chose
    stopped,       \* main has left run_polling through KeyboardInterrupt
    \* ---- batch operations over all projects (project manager bot) ----
    fleet,         \* project -> lifecycle state its container is in
    run,           \* the _run_batch_operation_async task
    batchReport,   \* the message the finished batch left to the operator
    \* ---- persisted files as found on disk (both bots) ----
    storeFile,     \* a <project>_processed.json as it is on disk
    retryFile,     \* retry_queue.json as it is on disk
    loaded,        \* what RetryQueue.load_queue made of retryFile
    opLog,         \* the last dedup-store or retry operation and how it ended
    \* ---- InboxWatcher of the project manager bot ----
    threads,       \* the _process_file_thread threads, in starting order
    processing,    \* InboxWatcher.processing_files
    store,         \* <project>_processed.json: the files recorded in it
    observed,      \* threads in the order they found their file new
    sent,          \* threads in the order their notification was sent
    mtime,         \* modification time of each inbox file
    \* ---- RetryQueue at the grain of its queue operations (inbox bot) ----
    rq,            \* RetryQueue.queue: retry items, numbered in put order
    rqFile,        \* retry_queue.json as last written
    callers,       \* thread -> where it is inside add_retry / get_retry
    nPut,          \* number of items put so far
    taken,         \* items get_retry has returned
    \* ---- the sends of one payload (inbox bot) ----
    sending,       \* the send_telegram_message_safe call: attempt, chunk index, state
    chan,          \* what the channel received: <<attempt, chunk index>>
    failedAt,      \* attempt -> index of the chunk whose send raised, 0 if none
    \* ---- iteration progress of a status query (project manager bot) ----
    progress,      \* the last query: the log window, the call, what was reported
    \* ---- extract_response_from_logs (project manager bot) ----
    extracted,     \* the last call: the log and the lines returned
    \* ---- replies to notifications (inbox bot) ----
    notif,         \* the notification on screen: origin and its Reply callback data
    replyTo,       \* context.user_data['reply_to'], with the origin of the click
    lastReply,     \* the last text message handled as a reply and where it went
    \* ---- RecentQuestions (project manager bot) ----
    questions,     \* RecentQuestions.questions: project -> questions, newest first
    fromFile,      \* questions is the dict json.load returned, not a defaultdict
    qLock,         \* RecentQuestions.lock is held
    asker,         \* where the handler of an ask-a-question request is
    \* ---- human messages written to a project's inbound directory ----
    inbound,       \* project -> file name -> the message the file holds
    nMsg,          \* number of messages accepted so far
    \* ---- retry_middleware (examples/pythonlib) ----
    retrying       \* one call through retry_middleware: where it is, what it did

pipeVars == <<disk, processed, queue, queueFile, tasks, watcher, events,
              scanTodo, workerStarted, epoch, nWrites>>
histVars == <<obsLog, delivered, dropped, okAfter, permFail, everHad,
              markedUnchanged, redelivered>>
statusVars == <<container, statusLog>>
lifeVars == <<menu, cmds, handler, batch, reports, launches, nCmds>>
\* what the notify pipeline, and what the status queries, leave alone
jobVars == <<now, jobs, instances, botRunning>>
splitVars == <<message, parts>>
projVars == <<projects, observers, lastEvent, stopped>>
batchVars == <<fleet, run, batchReport>>
loadVars == <<storeFile, retryFile, loaded, opLog>>
inboxVars == <<threads, processing, store, observed, sent, mtime>>
rqVars == <<rq, rqFile, callers, nPut, taken>>
chunkVars == <<sending, chan, failedAt>>
progVars == <<progress>>
extractVars == <<extracted>>
replyVars == <<notif, replyTo, lastReply>>
askVars == <<questions, fromFile, qLock, asker>>
inboundVars == <<inbound, nMsg>>
mwareVars == <<retrying>>
nonPipeVars == <<statusVars, lifeVars, jobVars, splitVars, projVars,
                 batchVars, loadVars, inboxVars, rqVars, chunkVars, progVars,
                 extractVars, replyVars, askVars, inboundVars, mwareVars>>
nonStatusVars == <<pipeVars, histVars, lifeVars, jobVars, splitVars,
                   projVars, batchVars, loadVars, inboxVars, rqVars,
                   chunkVars, progVars, extractVars, replyVars, askVars,
                   inboundVars, mwareVars>>
nonLifeVars == <<statusLog, pipeVars, histVars, jobVars, splitVars, projVars,
                 batchVars, loadVars, inboxVars, rqVars, chunkVars, progVars,
                 extractVars, replyVars, askVars, inboundVars, mwareVars>>
nonJobVars == <<pipeVars, histVars, statusVars, lifeVars, splitVars,
                projVars, batchVars, loadVars, inboxVars, rqVars, chunkVars,
                progVars, extractVars, replyVars, askVars, inboundVars,
                mwareVars>>
nonSplitVars == <<pipeVars, histVars, statusVars, lifeVars, jobVars,
                  projVars, batchVars, loadVars, inboxVars, rqVars,
                  chunkVars, progVars, extractVars, replyVars, askVars,
                  inboundVars, mwareVars>>
nonProjVars == <<pipeVars, histVars, statusVars, lifeVars, jobVars,
                 splitVars, batchVars, loadVars, inboxVars, rqVars,
                 chunkVars, progVars, extractVars, replyVars, askVars,
                 inboundVars, mwareVars>>
nonBatchVars == <<pipeVars, histVars, statusVars, lifeVars, jobVars,
                  splitVars, projVars, loadVars, inboxVars, rqVars,
                  chunkVars, progVars, extractVars, replyVars, askVars,
                  inboundVars, mwareVars>>
nonLoadVars == <<pipeVars, histVars, statusVars, lifeVars, jobVars,
                 splitVars, projVars, batchVars, inboxVars, rqVars,
                 chunkVars, progVars, extractVars, replyVars, askVars,
                 inboundVars, mwareVars>>
nonInboxVars == <<pipeVars, histVars, statusVars, lifeVars, jobVars,
                  splitVars, projVars, batchVars, loadVars, rqVars,
                  chunkVars, progVars, extractVars, replyVars, askVars,
                  inboundVars, mwareVars>>
nonRqVars == <<pipeVars, histVars, statusVars, lifeVars, jobVars, splitVars,
               projVars, batchVars, loadVars, inboxVars, chunkVars, progVars,
               extractVars, replyVars, askVars, inboundVars, mwareVars>>
nonChunkVars == <<pipeVars, histVars, statusVars, lifeVars, jobVars,
                  splitVars, projVars, batchVars, loadVars, inboxVars,
                  rqVars, progVars, extractVars, replyVars, askVars,
                  inboundVars, mwareVars>>
nonProgVars == <<pipeVars, histVars, statusVars, lifeVars, jobVars,
                 splitVars, projVars, batchVars, loadVars, inboxVars, rqVars,
                 chunkVars, extractVars, replyVars, askVars, inboundVars,
                 mwareVars>>
nonExtractVars == <<pipeVars, histVars, statusVars, lifeVars, jobVars,
                    splitVars, projVars, batchVars, loadVars, inboxVars,
                    rqVars, chunkVars, progVars, replyVars, askVars,
                    inboundVars, mwareVars>>
nonReplyVars == <<pipeVars, histVars, statusVars, lifeVars, jobVars,
                  splitVars, projVars, batchVars, loadVars, inboxVars,
                  rqVars, chunkVars, progVars, extractVars, askVars,
                  inboundVars, mwareVars>>
nonAskVars == <<pipeVars, histVars, statusVars, lifeVars, jobVars, splitVars,
                projVars, batchVars, loadVars, inboxVars, rqVars, chunkVars,
                progVars, extractVars, replyVars, inboundVars, mwareVars>>
nonInboundVars == <<pipeVars, histVars, statusVars, lifeVars, jobVars,
                    splitVars, projVars, batchVars, loadVars, inboxVars,
                    rqVars, chunkVars, progVars, extractVars, replyVars,
                    askVars, mwareVars>>
nonMwareVars == <<pipeVars, histVars, statusVars, lifeVars, jobVars,
                  splitVars, projVars, batchVars, loadVars, inboxVars,
                  rqVars, chunkVars, progVars, extractVars, replyVars,
                  askVars, inboundVars>>
vars == <<pipeVars, histVars, statusVars, lifeVars, jobVars, splitVars,
          projVars, batchVars, loadVars, inboxVars, rqVars, chunkVars,
          progVars, extractVars, replyVars, askVars, inboundVars, mwareVars>>

(***************************************************************************)
(* Dedup store (ProcessedFilesTracker)                                     *)
(***************************************************************************)
Exists(f) == disk[f].content # NoContent

\* hashlib.md5(content).hexdigest(); None when the file cannot be read
Md5(c) == <<"md5", c>>
GetFileHash(f) == IF Exists(f) THEN Md5(disk[f].content) ELSE "None"

\* f"{file_path.name}_{file_path.stat().st_mtime}"
FileKey(f) == <<f, disk[f].mtime>>

IsFileProcessedNoHash(f) == FileKey(f) \in DOMAIN processed

IsFileProcessed(f) ==
    IF FileKey(f) \in DOMAIN processed
    THEN processed[FileKey(f)] = GetFileHash(f)
    ELSE FALSE

MarkFileProcessed(f) ==
    [k \in (DOMAIN processed) \cup {FileKey(f)} |->
        IF k = FileKey(f) THEN GetFileHash(f) ELSE processed[k]]

(***************************************************************************)
(* Retry queue (RetryQueue)                                                *)
(***************************************************************************)
NextRetryCount(rc) == rc + 1

\* add_retry: the retry item built from a message_data
RetryItem(md) ==
    [message_data |-> md, retry_count |-> NextRetryCount(md.retry_count)]

\* add_retry followed by save_queue: the file is rewritten from the queue
AddRetry(md) ==
    /\ queue' = Append(queue, RetryItem(md))
    /\ queueFile' = Append(queue, RetryItem(md))

(***************************************************************************)
(* History helpers                                                         *)
(***************************************************************************)
ObsIds == 1..Len(obsLog)
DeliveredOf(f, c) ==
    LET ids == {o \in ObsIds : obsLog[o].file = f /\ obsLog[o].content = c}
        RECURSIVE Sum(_)
        Sum(S) == IF S = {} THEN 0
                  ELSE LET o == CHOOSE x \in S : TRUE
                       IN delivered[o] + Sum(S \ {o})
    IN Sum(ids)

EverDelivered(f, c) == DeliveredOf(f, c) > 0

(***************************************************************************)
(* process_new_message: read the file, build message_data                  *)
(***************************************************************************)
NewMessageData(f, o) ==
    [file |-> f, message |-> disk[f].content, retry_count |-> 0,
     obs |-> o, att |-> 0]

Observe(f, origin) ==
    /\ obsLog' = Append(obsLog,
           [file |-> f, content |-> disk[f].content, mtime |-> disk[f].mtime,
            origin |-> origin, epoch |-> epoch,
            collided |-> FileKey(f) \in DOMAIN processed])
    /\ delivered' = Append(delivered, 0)


(***************************************************************************)
(* Initial state: the supervisor has just been started for the first time  *)
(***************************************************************************)
IdleWatcher == [pc |-> "idle"]

PipeInit ==
    /\ disk = [f \in Files |-> [content |-> NoContent, mtime |-> 0]]
    /\ processed = <<>>
    /\ queue = <<>>
    /\ queueFile = <<>>
    /\ tasks = EmptyBag
    /\ watcher = IdleWatcher
    /\ events = {}
    /\ scanTodo = {}
    /\ workerStarted = TRUE
    /\ epoch = 0
    /\ nWrites = 0
    /\ obsLog = <<>>
    /\ delivered = <<>>
    /\ dropped = {}
    /\ okAfter = {}
    /\ permFail = {}
    /\ everHad = [f \in Files |-> {}]
    /\ markedUnchanged = [f \in Files |-> FALSE]
    /\ redelivered = {}

(***************************************************************************)
(* The worker writes to, or deletes from, its outbound directory           *)
(***************************************************************************)
\* keep: the write leaves st_mtime as it was; ev: the observer reports it as
\* a created-event (a plain overwrite is a modified-event, which on_modified
\* ignores)
Write(f, c, keep, ev) ==
    /\ nWrites < MaxWrites
    /\ keep => Exists(f)
    /\ nWrites' = nWrites + 1
    /\ disk' = [disk EXCEPT ![f] =
          [content |-> c,
           mtime |-> IF keep THEN disk[f].mtime ELSE disk[f].mtime + 1]]
    /\ events' = IF ev THEN events \cup {f} ELSE events
    /\ everHad' = [everHad EXCEPT ![f] = @ \cup {c}]
    /\ markedUnchanged' = [markedUnchanged EXCEPT ![f] =
          @ /\ keep /\ c = disk[f].content]
    /\ UNCHANGED <<processed, queue, queueFile, tasks, watcher, scanTodo,
                   workerStarted,
                   epoch>>
    /\ UNCHANGED <<obsLog, delivered, dropped, okAfter, permFail,
                   redelivered>>
    /\ UNCHANGED nonPipeVars

Delete(f) ==
    /\ nWrites < MaxWrites
    /\ Exists(f)
    /\ nWrites' = nWrites + 1
    /\ disk' = [disk EXCEPT ![f].content = NoContent]
    /\ markedUnchanged' = [markedUnchanged EXCEPT ![f] = FALSE]
    /\ UNCHANGED <<processed, queue, queueFile, tasks, watcher, events,
                   scanTodo, workerStarted, epoch>>
    /\ UNCHANGED <<obsLog, delivered, dropped, okAfter, permFail, everHad,
                   redelivered>>
    /\ UNCHANGED nonPipeVars

(***************************************************************************)
(* Watcher thread: on_created -> process_event -> process_new_message      *)
(***************************************************************************)
NewTask(md, origin, waited) ==
    [md |-> md, part |-> 0, phase |-> "send", waited |-> waited,
     origin |-> origin]

\* The handler takes one created-event.  stat() of a vanished file raises and
\* the event is lost; a processed file is skipped; a new file is read and its
\* send coroutine is scheduled on the loop with run_coroutine_threadsafe,
\* after which the thread blocks in future.result(timeout=1.0).
ProcessEvent(f) ==
    /\ watcher.pc = "idle"
    /\ f \in events
    /\ events' = events \ {f}
    /\ IF ~Exists(f)
       THEN UNCHANGED <<tasks, watcher, obsLog, delivered>>
       ELSE IF IsFileProcessed(f)
            THEN UNCHANGED <<tasks, watcher, obsLog, delivered>>
            ELSE /\ Len(obsLog) < MaxObs
                 /\ Observe(f, "event")
                 /\ LET md == NewMessageData(f, Len(obsLog) + 1)
                    IN /\ tasks' = tasks (+) SetToBag({NewTask(md, "event", TRUE)})
                       /\ watcher' = [pc |-> "waiting", md |-> md]
    /\ UNCHANGED <<disk, processed, queue, queueFile, scanTodo, workerStarted,
                   epoch, nWrites>>
    /\ UNCHANGED <<dropped, okAfter, permFail, everHad, markedUnchanged,
                   redelivered>>
    /\ UNCHANGED nonPipeVars

\* future.result(timeout=1.0) raises TimeoutError while the coroutine is still
\* running: the except branch adds message_data to the retry queue from the
\* watcher thread; the coroutine is not cancelled.
WatcherTimeout ==
    /\ watcher.pc = "waiting"
    /\ \E t \in BagToSet(tasks) :
          /\ t.waited
          /\ tasks' = (tasks (-) SetToBag({t}))
                         (+) SetToBag({[t EXCEPT !.waited = FALSE]})
    /\ AddRetry(watcher.md)
    /\ watcher' = IdleWatcher
    /\ UNCHANGED <<disk, processed, events, scanTodo, workerStarted, epoch,
                   nWrites>>
    /\ UNCHANGED <<obsLog, delivered, dropped, okAfter, permFail, everHad,
                   markedUnchanged, redelivered>>
    /\ UNCHANGED nonPipeVars

(***************************************************************************)
(* Event loop: send_telegram_message_safe                                  *)
(***************************************************************************)
ShouldRetryOnceMore(rc) == rc <= MaxRetries

ShouldRetry(rc) == rc < MaxRetries

\* post_init creates the retry_worker task, then schedules the scan
\* coroutine: the worker's first round runs first, then the scan, which does
\* not yield before it is through; only then the loop resumes other
\* coroutines.
LoopFree == workerStarted /\ scanTodo = {}

\* The coroutine ends: its future completes, which wakes the watcher thread
\* if that thread is still blocked on it.
Finish(t) ==
    /\ tasks' = tasks (-) SetToBag({t})
    /\ watcher' = IF t.waited THEN IdleWatcher ELSE watcher

\* The except branch after the optional flood-control sleep: re-enqueue while
\* retry_count < 3, otherwise the message is given up.
ExceptTail(t, md) ==
    /\ IF ShouldRetry(md.retry_count)
       THEN AddRetry(md) /\ UNCHANGED dropped
       ELSE /\ dropped' = dropped \cup
                  {[obs |-> md.obs, epoch |-> epoch, att |-> md.att]}
            /\ UNCHANGED <<queue, queueFile>>
    /\ Finish(t)

\* One "await self.bot.send_message(...)" of the coroutine t returns or raises.
SendChunk(t, outcome) ==
    /\ LoopFree
    /\ t \in BagToSet(tasks)
    /\ t.phase = "send"
    /\ LET md == IF t.part = 0 THEN [t.md EXCEPT !.att = @ + 1] ELSE t.md
           f == md.file
           last == t.part + 1 = NumParts(md.message)
       IN CASE outcome = "ok" /\ ~last ->
                 \* next chunk after asyncio.sleep(0.5)
                 /\ tasks' = (tasks (-) SetToBag({t}))
                       (+) SetToBag({[t EXCEPT !.md = md, !.part = @ + 1]})
                 /\ UNCHANGED <<processed, queue, queueFile, watcher,
                                delivered, dropped, okAfter, redelivered>>
            [] outcome = "ok" /\ last ->
                 /\ delivered' = [delivered EXCEPT ![md.obs] = @ + 1]
                 /\ okAfter' = IF md.retry_count < MaxRetries
                               THEN okAfter \cup {md.obs} ELSE okAfter
                 /\ redelivered' = IF markedUnchanged[f]
                                   THEN redelivered \cup {f} ELSE redelivered
                 /\ IF Exists(f)
                    THEN \* mark_file_processed stats and hashes the file anew
                         /\ processed' = MarkFileProcessed(f)
                         /\ Finish(t)
                         /\ UNCHANGED <<queue, queueFile, dropped>>
                    ELSE \* stat() raises inside the try block
                         /\ ExceptTail(t, md)
                         /\ UNCHANGED processed
            [] outcome = "error" ->
                 /\ ExceptTail(t, md)
                 /\ UNCHANGED <<processed, delivered, okAfter, redelivered>>
            [] outcome = "flood" ->
                 \* "flood control ... retry in N seconds": asyncio.sleep(N)
                 /\ tasks' = (tasks (-) SetToBag({t}))
                       (+) SetToBag({[t EXCEPT !.md = md, !.phase = "flood"]})
                 /\ UNCHANGED <<processed, queue, queueFile, watcher,
                                delivered, dropped, okAfter, redelivered>>
    /\ UNCHANGED <<disk, events, scanTodo, workerStarted, epoch, nWrites>>
    /\ UNCHANGED <<obsLog, permFail, everHad, markedUnchanged>>
    /\ UNCHANGED nonPipeVars

\* The flood-control sleep of coroutine t is over.
FloodWake(t) ==
    /\ LoopFree
    /\ t \in BagToSet(tasks)
    /\ t.phase = "flood"
    /\ ExceptTail(t, t.md)
    /\ UNCHANGED <<disk, processed, events, scanTodo, workerStarted, epoch,
                   nWrites>>
    /\ UNCHANGED <<obsLog, delivered, okAfter, permFail, everHad,
                   markedUnchanged, redelivered>>
    /\ UNCHANGED nonPipeVars

(***************************************************************************)
(* Event loop: retry_worker                                                *)
(***************************************************************************)
CanRedrive(rc) == rc <= MaxRedriveCount

RetryBusy == \E t \in BagToSet(tasks) : t.origin = "retry"

\* One round of the worker: get_retry (which saves the queue), then either
\* "await send_telegram_message_safe(message_data)" or the error log.
RetryWorkerStep ==
    /\ ~RetryBusy
    /\ workerStarted => (scanTodo = {} /\ queue # <<>>)
    /\ workerStarted' = TRUE
    /\ IF queue = <<>>
       THEN UNCHANGED <<queue, queueFile, tasks, permFail>>
       ELSE LET item == Head(queue)
                md == [item.message_data EXCEPT
                          !.retry_count = item.retry_count]
            IN /\ queue' = Tail(queue)
               /\ queueFile' = Tail(queue)
               /\ IF CanRedrive(item.retry_count)
                  THEN /\ tasks' = tasks (+)
                             SetToBag({NewTask(md, "retry", FALSE)})
                       /\ UNCHANGED permFail
                  ELSE /\ permFail' = permFail \cup {md.obs}
                       /\ UNCHANGED tasks
    /\ UNCHANGED <<disk, processed, watcher, events, scanTodo, epoch, nWrites>>
    /\ UNCHANGED <<obsLog, delivered, dropped, okAfter, everHad,
                   markedUnchanged, redelivered>>
    /\ UNCHANGED nonPipeVars

(***************************************************************************)
(* Event loop: scan_existing_files (scan_with_delay)                       *)
(***************************************************************************)
\* The scan coroutine looks at one file.  old: the file is older than three
\* hours.  For a fresh unprocessed file it calls process_new_message on the
\* loop thread itself: the send coroutine is scheduled on this same loop, the
\* loop thread blocks in future.result(timeout=1.0), which therefore always
\* times out, and the except branch adds the message to the retry queue.
ScanFile(f, old) ==
    /\ workerStarted
    /\ f \in scanTodo
    /\ scanTodo' = scanTodo \ {f}
    /\ IF ~Exists(f) \/ old
       THEN UNCHANGED <<tasks, queue, queueFile, obsLog, delivered>>
       ELSE IF IsFileProcessed(f)
            THEN UNCHANGED <<tasks, queue, queueFile, obsLog, delivered>>
            ELSE /\ Len(obsLog) < MaxObs
                 /\ Observe(f, "scan")
                 /\ LET md == NewMessageData(f, Len(obsLog) + 1)
                    IN /\ tasks' = tasks (+) SetToBag({NewTask(md, "scan", FALSE)})
                       /\ AddRetry(md)

    /\ UNCHANGED <<disk, processed, watcher, events, workerStarted, epoch,
                   nWrites>>
    /\ UNCHANGED <<dropped, okAfter, permFail, everHad, markedUnchanged,
                   redelivered>>
    /\ UNCHANGED nonPipeVars

\* A step of the scan coroutine in which the loop thread itself goes through
\* process_new_message: run_coroutine_threadsafe onto its own loop, then
\* future.result(timeout=1.0)
LoopWaitsOnOwnFuture == \E f \in Files : ScanFile(f, FALSE) /\ tasks' # tasks

(***************************************************************************)
(* The supervisor process is stopped (or crashes) and is started again     *)
(***************************************************************************)
\* Memory is lost; RetryQueue.load_queue reads retry_queue.json, post_init
\* starts retry_worker and scan_existing_files, the observers start afresh.
Restart ==
    /\ epoch < MaxRestarts
    /\ epoch' = epoch + 1
    /\ tasks' = EmptyBag
    /\ watcher' = IdleWatcher
    /\ events' = {}
    /\ queue' = queueFile
    /\ scanTodo' = Files
    /\ workerStarted' = FALSE
    /\ markedUnchanged' = [f \in Files |-> Exists(f) /\ IsFileProcessed(f)]
    /\ UNCHANGED <<disk, processed, queueFile, nWrites>>
    /\ UNCHANGED <<obsLog, delivered, dropped, okAfter, permFail, everHad,
                   redelivered>>
    /\ UNCHANGED nonPipeVars

(***************************************************************************)
(* Project manager bot: derived lifecycle state                            *)
(***************************************************************************)
\* projects.json: "alpha" has a container_name, "ghost" has none
Projects == {"alpha", "ghost"}
Configured == {"alpha"}
ExitCodes == {0, 1, 137}
NoContainer == [exists |-> FALSE]

\* what "docker inspect" can report for a container; the last set stands for
\* an introspection result that carries no exit_code
RawInfos ==
    {NoContainer}
    \cup [exists : {TRUE}, running : BOOLEAN, paused : BOOLEAN,
          exit_code : ExitCodes]
    \cup [exists : {TRUE}, running : BOOLEAN, paused : BOOLEAN]

\* _get_container_info_sync: a failing inspect call reports {"exists": False}
GetContainerInfo(p, fails) == IF fails THEN NoContainer ELSE container[p]

\* container_info.get("exit_code", 1)
InfoExitCode(info) ==
    IF "exit_code" \in DOMAIN info THEN info.exit_code ELSE 1

DerivedStateRunningFirst(info) ==
    IF ~info.exists THEN "not_started"
    ELSE IF info.running THEN "running"
    ELSE IF info.paused THEN "paused"
    ELSE IF InfoExitCode(info) = 0 THEN "completed"
    ELSE "stopped"

DerivedStateExited(info) ==
    IF ~info.exists THEN "not_started"
    ELSE IF info.paused THEN "paused"
    ELSE IF info.running THEN "running"
    ELSE IF InfoExitCode(info) = 0 THEN "completed"
    ELSE "exited"

\* get_project_status, "Determine state"
DerivedState(info) ==
    IF ~info.exists THEN "not_started"
    ELSE IF info.paused THEN "paused"
    ELSE IF info.running THEN "running"
    ELSE IF InfoExitCode(info) = 0 THEN "completed"
    ELSE "stopped"

StatusInit ==
    /\ container = [p \in Projects |-> NoContainer]
    /\ statusLog = <<>>

\* the external process manager changes a container on its own account
ContainerChange(p, info) ==
    /\ p \in Configured
    /\ info \in RawInfos
    /\ container' = [container EXCEPT ![p] = info]
    /\ UNCHANGED statusLog
    /\ UNCHANGED nonStatusVars

\* get_project_status(project_name); fails: the inspect call fails
GetProjectStatus(p, fails) ==
    /\ Len(statusLog) < MaxQueries
    /\ IF p \notin Configured
       THEN statusLog' = Append(statusLog,
               [name |-> p, info |-> NoContainer, configured |-> FALSE,
                state |-> "not_configured"])
       ELSE LET info == GetContainerInfo(p, fails)
            IN statusLog' = Append(statusLog,
                  [name |-> p, info |-> info, configured |-> TRUE,
                   state |-> DerivedState(info)])
    /\ UNCHANGED container
    /\ UNCHANGED nonStatusVars

(***************************************************************************)
(* Lifecycle commands: ProjectManager.execute_command and its callers in   *)
(* telegram_project_manager_bot.py, ProjectLauncher in                     *)
(* telegram_multiproject_inbox_bot.py                                      *)
(***************************************************************************)
\* the project the commands are about
LifeProject == "alpha"
Commands == {"start", "pause", "resume", "stop"}
BatchOps == {"start_all", "pause_all", "stop_all"}
\* the states get_project_status derives from a container's introspection
LifecycleStates == {"not_started", "running", "paused", "stopped", "completed"}
\* how subprocess.run of the script ends
CmdOutcomes == {"zero", "nonzero", "timeout", "exception"}
\* lengths of the error text the script writes to stderr
StderrLens == {40, 300}

\* what docker inspect reports for a container in a lifecycle state
InfoOf(state) ==
    CASE state = "not_started" -> NoContainer
      [] state = "running" ->
            [exists |-> TRUE, running |-> TRUE, paused |-> FALSE, exit_code |-> 0]
      [] state = "paused" ->
            [exists |-> TRUE, running |-> TRUE, paused |-> TRUE, exit_code |-> 0]
      [] state = "completed" ->
            [exists |-> TRUE, running |-> FALSE, paused |-> FALSE, exit_code |-> 0]
      [] state = "stopped" ->
            [exists |-> TRUE, running |-> FALSE, paused |-> FALSE,
             exit_code |-> 137]

\* the state the external manager holds the project's container in
ManagerState == DerivedState(container[LifeProject])

\* project_manager.sh: the transition a command makes when it succeeds
ManagerEffect(cmd) ==
    CASE cmd = "start" -> "running"
      [] cmd = "pause" -> "paused"
      [] cmd = "resume" -> "running"
      [] cmd = "stop" -> "stopped"

\* project_manager.sh: the states in which a command can succeed
ManagerAccepts(cmd) ==
    CASE cmd = "start" -> {"not_started", "stopped", "completed"}
      [] cmd = "pause" -> {"running"}
      [] cmd = "resume" -> {"paused"}
      [] cmd = "stop" -> {"running", "paused"}

\* get_available_actions: the lifecycle commands among the buttons of a state
AvailableActions(state) ==
    CASE state = "running" -> {"pause", "stop"}
      [] state = "paused" -> {"resume", "stop"}
      [] state = "stopped" -> {"start"}
      [] state = "completed" -> {"start"}
      [] state = "not_started" -> {"start"}
      [] OTHER -> {}

\* _run_batch_operation_async: the command of a batch operation and the
\* states of a project it is issued for
BatchCommand(op) ==
    CASE op = "start_all" -> "start"
      [] op = "pause_all" -> "pause"
      [] op = "stop_all" -> "stop"

BatchEligible(op) ==
    CASE op = "start_all" -> {"not_started"}
      [] op = "pause_all" -> {"running"}
      [] op = "stop_all" -> {"running", "paused"}

Min(a, b) == IF a <= b THEN a ELSE b

\* a text by where it comes from and its length; text[:n]
Text(kind, len) == [kind |-> kind, len |-> len]
Truncate(text, n) == [text EXCEPT !.len = Min(@, n)]

\* _execute_command_sync / _run_command_sync: the (success, output) pair
CommandSuccess(outcome) == outcome = "zero"

CommandOutput(outcome, errlen) ==
    CASE outcome = "zero" -> Text("stdout", 20)
      [] outcome = "nonzero" -> Text("stderr", errlen)
      [] outcome = "timeout" -> Text("timed out", 34)
      [] outcome = "exception" -> Text("exception", 30)

IdleHandler == [pc |-> "idle"]
IdleBatch == [pc |-> "idle"]

LifeInit ==
    /\ menu = {}
    /\ cmds = {}
    /\ handler = IdleHandler
    /\ batch = IdleBatch
    /\ reports = {}
    /\ launches = "none"
    /\ nCmds = 0

\* run_in_executor(self.executor, self._execute_command_sync, args, 30):
\* the command is handed to a pool thread at once
Issue(cmd, origin) ==
    /\ nCmds < MaxCmds
    /\ nCmds' = nCmds + 1
    /\ cmds' = cmds \cup
          {[id |-> nCmds + 1, cmd |-> cmd, origin |-> origin,
            src |-> ManagerState]}

\* handle_pm_callback, 'project': the status is queried and the keyboard of
\* the actions available in that state replaces the message
ShowProject(fails) ==
    /\ handler = IdleHandler
    /\ menu' = AvailableActions(
                  DerivedState(GetContainerInfo(LifeProject, fails)))
    /\ UNCHANGED <<cmds, handler, batch, reports, launches, nCmds>>
    /\ UNCHANGED <<container, nonLifeVars>>

\* handle_action_callback: the operator presses an action button.  The
\* message is edited (its keyboard goes); action_start hands the command to
\* a background task, the other actions await it in the handler.
ClickAction(a) ==
    /\ handler = IdleHandler
    /\ a \in menu
    /\ menu' = {}
    /\ Issue(a, IF a = "start" THEN "task" ELSE "handler")
    /\ handler' = IF a = "start" THEN handler
                  ELSE [pc |-> "await", id |-> nCmds + 1]
    /\ UNCHANGED <<batch, reports, launches>>
    /\ UNCHANGED <<container, nonLifeVars>>

\* handle_batch_operation: the batch runs as a background task
BatchStart(op) ==
    /\ handler = IdleHandler
    /\ batch = IdleBatch
    /\ batch' = [pc |-> "status", op |-> op]
    /\ UNCHANGED <<menu, cmds, handler, reports, launches, nCmds>>
    /\ UNCHANGED <<container, nonLifeVars>>

\* the batch: "status = await get_project_status(project)" reads the state
BatchStatus(fails) ==
    /\ batch.pc = "status"
    /\ batch' =
          IF DerivedState(GetContainerInfo(LifeProject, fails))
                \in BatchEligible(batch.op)
          THEN [pc |-> "issue", op |-> batch.op]
          ELSE IdleBatch
    /\ UNCHANGED <<menu, cmds, handler, reports, launches, nCmds>>
    /\ UNCHANGED <<container, nonLifeVars>>

\* the batch: get_project_status has returned (after its further awaits) and
\* the command of the operation is issued
BatchIssue ==
    /\ batch.pc = "issue"
    /\ Issue(BatchCommand(batch.op), "batch")
    /\ batch' = [pc |-> "await", id |-> nCmds + 1]
    /\ UNCHANGED <<menu, handler, reports, launches>>
    /\ UNCHANGED <<container, nonLifeVars>>

\* _check_container_sync: docker inspect -f {{.State.Running}} says "true"
LauncherSeesRunning == ManagerState \in {"running", "paused"}

\* send_user_message_to_project: the container is not running, so
\* start_project_nonblocking marks the launch, schedules _launch_in_thread
\* and returns (True, "Starting project ... in background")
LauncherStart ==
    /\ handler = IdleHandler
    /\ ~LauncherSeesRunning
    /\ Issue("start", "launcher")
    /\ launches' = "launching"
    /\ reports' = reports \cup
          {[id |-> nCmds + 1, cmd |-> "start", origin |-> "launcher",
            outcome |-> "pending", success |-> TRUE,
            text |-> Text("starting", 40), output |-> Text("none", 0)]}
    /\ UNCHANGED <<menu, handler, batch>>
    /\ UNCHANGED <<container, nonLifeVars>>

\* what the caller of a finished command is told: action_pause and its like
\* put the output into the message, the batch keeps only the success flag,
\* _launch_in_thread notifies a failure with output[:200]
ReportText(origin, output) ==
    CASE origin = "batch" -> Text("none", 0)
      [] origin = "launcher" -> Truncate(output, LaunchErrorLimit)
      [] OTHER -> output

\* The script of command c ends in its pool thread and the awaiting
\* coroutine goes on.  A zero result needs a state the manager accepts the
\* command in, and makes the command's transition.
CmdReturn(c, outcome, errlen) ==
    /\ c \in cmds
    /\ outcome = "zero" => ManagerState \in ManagerAccepts(c.cmd)
    /\ cmds' = cmds \ {c}
    /\ container' =
          IF outcome = "zero"
          THEN [container EXCEPT ![LifeProject] = InfoOf(ManagerEffect(c.cmd))]
          ELSE container
    /\ LET output == CommandOutput(outcome, errlen)
       IN /\ IF c.origin = "launcher" /\ CommandSuccess(outcome)
             THEN UNCHANGED reports
             ELSE reports' = reports \cup
                     {[id |-> c.id, cmd |-> c.cmd, origin |-> c.origin,
                       outcome |-> outcome,
                       success |-> CommandSuccess(outcome),
                       text |-> ReportText(c.origin, output),
                       output |-> output]}
          /\ launches' =
                IF c.origin = "launcher"
                THEN IF CommandSuccess(outcome) THEN "started" ELSE "failed"
                ELSE launches
    /\ handler' = IF handler.pc = "await" /\ handler.id = c.id
                  THEN IdleHandler ELSE handler
    /\ batch' = IF batch.pc = "await" /\ batch.id = c.id
                THEN IdleBatch ELSE batch
    /\ UNCHANGED <<menu, nCmds>>
    /\ UNCHANGED nonLifeVars

\* the running container ends on its own account
ContainerExit(state) ==
    /\ ManagerState = "running"
    /\ state \in {"completed", "stopped"}
    /\ container' = [container EXCEPT ![LifeProject] = InfoOf(state)]
    /\ UNCHANGED lifeVars
    /\ UNCHANGED nonLifeVars

(***************************************************************************)
(* Ephemeral jobs: handle_ask_question / handle_direct_ask from the point  *)
(* where the instance name is generated, _start_and_monitor_container and  *)
(* monitor_temp_container (telegram_project_manager_bot.py)                *)
(***************************************************************************)
\* the clock is read in whole seconds: now is int(time.time())
\* f"temp_{int(time.time())}"
TempName(t) == <<"temp", t>>
TempNames == {TempName(t) : t \in 0..LastAsk}

\* "while time.time() - start_time < max_wait"
DeadlineOpenInclusive(start, t) == t - start <= MaxWait

DeadlineOpen(start, t) == t - start < MaxWait

NoTime == -1

JobInit ==
    /\ now = 0
    /\ jobs = <<>>
    /\ instances = [n \in TempNames |-> "absent"]
    /\ botRunning = TRUE

\* the wall clock advances
Tick ==
    /\ now < MaxTime
    /\ now' = now + 1
    /\ UNCHANGED <<jobs, instances, botRunning>>
    /\ UNCHANGED nonJobVars

\* handle_ask_question / handle_direct_ask from "temp_name = ..." on (the
\* call of recent_questions.add_question that precedes it has returned):
\* the name is generated and _start_and_monitor_container is scheduled; its
\* start_project command is handed to the pool
AskQuestion ==
    /\ Len(jobs) < MaxJobs
    /\ now <= LastAsk
    /\ jobs' = Append(jobs,
          [name |-> TempName(now), pc |-> "start", start |-> NoTime,
           wake |-> NoTime, polls |-> 0, latePoll |-> FALSE,
           issued |-> <<>>,
           outcome |-> "none"])
    /\ UNCHANGED <<now, instances, botRunning>>
    /\ UNCHANGED nonJobVars

\* project_manager.sh start ... --container-name <name> ends.  zero: the
\* instance runs; nonzero or exception: no instance; timeout: subprocess.run
\* gave up, the instance may have been created all the same.
StartReturn(j, outcome, created) ==
    /\ jobs[j].pc = "start"
    /\ outcome = "zero" => created
    /\ outcome \in {"nonzero", "exception"} => ~created
    /\ instances' = IF created
                    THEN [instances EXCEPT ![jobs[j].name] = "running"]
                    ELSE instances
    /\ jobs' = IF CommandSuccess(outcome)
               THEN \* "Container started successfully", then the monitor
                    [jobs EXCEPT ![j].pc = "enter"]
               ELSE \* "Failed to start container", nothing else
                    [jobs EXCEPT ![j].pc = "done",
                                 ![j].outcome = "start failed"]
    /\ UNCHANGED <<now, botRunning>>
    /\ UNCHANGED nonJobVars

\* monitor_temp_container: on entry start_time = time.time(); then, on
\* entry and whenever "await asyncio.sleep(5)" is over, the while condition
\* and the shutdown check
LoopTop(j) ==
    /\ \/ jobs[j].pc = "enter"
       \/ jobs[j].pc = "sleep" /\ now >= jobs[j].wake
    /\ LET start == IF jobs[j].pc = "enter" THEN now ELSE jobs[j].start
       IN jobs' =
          IF ~DeadlineOpen(start, now)
          THEN \* while ... else: "Timeout reached. Stopping container"
               [jobs EXCEPT ![j].pc = "timeout stop", ![j].start = NoTime,
                            ![j].wake = NoTime, ![j].outcome = "timeout"]
          ELSE IF ~botRunning
          THEN \* break
               [jobs EXCEPT ![j].pc = "done", ![j].start = NoTime,
                            ![j].wake = NoTime, ![j].outcome = "shutdown"]
          ELSE \* one more poll; latePoll records a poll begun at or after
               \* start_time + max_wait
               [jobs EXCEPT ![j].pc = "inspect", ![j].start = start,
                            ![j].wake = NoTime,
                            ![j].polls = Min(@ + 1, 2),
                            ![j].latePoll = @ \/ now - start >= MaxWait]
    /\ UNCHANGED <<now, instances, botRunning>>
    /\ UNCHANGED nonJobVars

\* "info = await get_container_info(container_name)" returns; fails: the
\* inspect call failed and reports {"exists": False}; raises: the await (or
\* the handling of a stopped container) raises
Inspect(j, fails, raises) ==
    /\ jobs[j].pc = "inspect"
    /\ jobs' =
          IF raises
          THEN [jobs EXCEPT ![j].pc = "except rm", ![j].start = NoTime,
                            ![j].outcome = "error"]
          ELSE IF fails \/ instances[jobs[j].name] # "running"
          THEN [jobs EXCEPT ![j].pc = "complete rm", ![j].start = NoTime,
                            ![j].outcome = "completed"]
          ELSE [jobs EXCEPT ![j].pc = "sleep",
                            ![j].wake = now + PollSleep]
    /\ UNCHANGED <<now, instances, botRunning>>
    /\ UNCHANGED nonJobVars

\* docker rm <name>: refused for a running container
DockerRm(name) ==
    IF instances[name] = "running" THEN instances
    ELSE [instances EXCEPT ![name] = "absent"]

\* docker stop <name>; ok: the command succeeds
DockerStop(name, ok) ==
    IF ok /\ instances[name] = "running"
    THEN [instances EXCEPT ![name] = "exited"]
    ELSE instances

\* docker rm -f <name>
DockerRmForce(name) == [instances EXCEPT ![name] = "absent"]

\* completion: execute_command(["docker", "rm", container_name]), break
CompleteRm(j) ==
    /\ jobs[j].pc = "complete rm"
    /\ instances' = DockerRm(jobs[j].name)
    /\ jobs' = [jobs EXCEPT ![j].pc = "done",
                            ![j].issued = Append(@, "rm")]
    /\ UNCHANGED <<now, botRunning>>
    /\ UNCHANGED nonJobVars

\* timeout: execute_command(["docker", "stop", container_name])
TimeoutStop(j, ok) ==
    /\ jobs[j].pc = "timeout stop"
    /\ instances' = DockerStop(jobs[j].name, ok)
    /\ jobs' = [jobs EXCEPT ![j].pc = "timeout rm",
                            ![j].issued = Append(@, "stop")]
    /\ UNCHANGED <<now, botRunning>>
    /\ UNCHANGED nonJobVars

\* timeout: execute_command(["docker", "rm", container_name])
TimeoutRm(j) ==
    /\ jobs[j].pc = "timeout rm"
    /\ instances' = DockerRm(jobs[j].name)
    /\ jobs' = [jobs EXCEPT ![j].pc = "done",
                            ![j].issued = Append(@, "rm")]
    /\ UNCHANGED <<now, botRunning>>
    /\ UNCHANGED nonJobVars

\* except ... finally: execute_command(["docker", "rm", "-f", name])
ExceptRm(j) ==
    /\ jobs[j].pc = "except rm"
    /\ instances' = DockerRmForce(jobs[j].name)
    /\ jobs' = [jobs EXCEPT ![j].pc = "done",
                            ![j].issued = Append(@, "rm -f")]
    /\ UNCHANGED <<now, botRunning>>
    /\ UNCHANGED nonJobVars

\* the disposable instance has answered and exits
InstanceExit(n) ==
    /\ instances[n] = "running"
    /\ instances' = [instances EXCEPT ![n] = "exited"]
    /\ UNCHANGED <<now, jobs, botRunning>>
    /\ UNCHANGED nonJobVars

\* cleanup(): self.running = False
Shutdown ==
    /\ botRunning
    /\ botRunning' = FALSE
    /\ UNCHANGED <<now, jobs, instances>>
    /\ UNCHANGED nonJobVars

(***************************************************************************)
(* split_message (telegram_multiproject_inbox_bot.py); a text is a         *)
(* sequence of characters                                                  *)
(***************************************************************************)
Chars == {"a", "b", " ", "\n"}
\* the characters removed by str.rstrip() among Chars
Whitespace == {" ", "\n"}
Texts == UNION {[1..n -> Chars] : n \in 0..MaxText}

\* message.split('\n')
RECURSIVE SplitLines(_)
SplitLines(text) ==
    IF text = <<>> THEN << <<>> >>
    ELSE LET rest == SplitLines(Tail(text))
         IN IF Head(text) = "\n" THEN << <<>> >> \o rest
            ELSE << <<Head(text)>> \o rest[1] >> \o Tail(rest)

\* str.rstrip()
RECURSIVE RStrip(_)
RStrip(text) ==
    IF text # <<>> /\ text[Len(text)] \in Whitespace
    THEN RStrip(SubSeq(text, 1, Len(text) - 1))
    ELSE text

\* "while len(line) > max_length: parts.append(line[:max_length]);
\*  line = line[max_length:]": the pieces appended, and what is left of line
RECURSIVE LinePieces(_)
LinePieces(line) ==
    IF Len(line) > MaxLength
    THEN <<SubSeq(line, 1, MaxLength)>>
             \o LinePieces(SubSeq(line, MaxLength + 1, Len(line)))
    ELSE <<>>

RECURSIVE LineRest(_)
LineRest(line) ==
    IF Len(line) > MaxLength
    THEN LineRest(SubSeq(line, MaxLength + 1, Len(line)))
    ELSE line

\* "for line in lines" from lines[i] on, followed by the final append
RECURSIVE SplitLoop(_, _, _, _)
SplitLoop(lines, i, ps, current_part) ==
    IF i > Len(lines)
    THEN IF current_part # <<>> THEN Append(ps, RStrip(current_part)) ELSE ps
    ELSE LET line == lines[i]
         IN IF Len(current_part) + Len(line) + 1 <= MaxLength
            THEN SplitLoop(lines, i + 1, ps, current_part \o line \o <<"\n">>)
            ELSE IF current_part # <<>>
            THEN SplitLoop(lines, i + 1, Append(ps, RStrip(current_part)),
                           line \o <<"\n">>)
            ELSE SplitLoop(lines, i + 1, ps \o LinePieces(line),
                           LineRest(line) \o <<"\n">>)

split_message(text) ==
    IF Len(text) <= MaxLength THEN <<text>>
    ELSE SplitLoop(SplitLines(text), 1, <<>>, <<>>)

SplitInit ==
    /\ message = <<>>
    /\ parts = <<>>

\* send_telegram_message_safe: "parts = self.split_message(message)"
SplitMessage ==
    /\ parts = <<>>
    /\ parts' = split_message(message)
    /\ UNCHANGED message
    /\ UNCHANGED nonSplitVars

(***************************************************************************)
(* Configured projects, observers and the attribution of events            *)
(* (telegram_multiproject_inbox_bot.py); a path is the sequence of its     *)
(* components, str(path) joins them with "/"                               *)
(***************************************************************************)
ProjectNames == {"p", "q"}
ProjectPaths == {<<"a">>, <<"x", "a">>}
NoProject == "none"

\* Path(project_info['path']) / "inbox" / "to_human"
InboxPath(path) == path \o <<"inbox", "to_human">>

\* "str(project_inbox) in str(file_path)"
IsSubstring(s, t) ==
    \E i \in 1..(Len(t) - Len(s) + 1) : SubSeq(t, i, i + Len(s) - 1) = s

\* s is a leading part of t
IsPrefix(s, t) == Len(s) <= Len(t) /\ SubSeq(t, 1, Len(s)) = s

IsConfigured(n) == \E i \in 1..Len(projects) : projects[i].name = n
IndexOf(n) == CHOOSE i \in 1..Len(projects) : projects[i].name = n
ProjectInfo(n) == projects[IndexOf(n)]

\* Config.add_project: self.projects[name] = {...}; an existing key keeps its
\* place in the dict
ConfigAddProject(n, path) ==
    LET info == [name |-> n, path |-> path, enabled |-> TRUE]
    IN IF IsConfigured(n) THEN [projects EXCEPT ![IndexOf(n)] = info]
       ELSE Append(projects, info)

\* Config.remove_project: del self.projects[name]
ConfigRemoveProject(n) ==
    LET i == IndexOf(n)
    IN SubSeq(projects, 1, i - 1) \o SubSeq(projects, i + 1, Len(projects))

\* Config.toggle_project
ConfigToggleProject(n) ==
    [projects EXCEPT ![IndexOf(n)].enabled = ~@]

\* start_monitoring_project(project_name) with the configuration cfg
StartMonitoring(obs, cfg, n) ==
    LET info == cfg[CHOOSE i \in 1..Len(cfg) : cfg[i].name = n]
    IN IF n \in DOMAIN obs THEN obs
       ELSE IF ~info.enabled THEN obs
       ELSE [m \in (DOMAIN obs) \cup {n} |->
                IF m = n THEN InboxPath(info.path) ELSE obs[m]]

\* stop_monitoring_project(project_name)
StopMonitoring(obs, n) == [m \in (DOMAIN obs) \ {n} |-> obs[m]]

ProjInit ==
    /\ projects = <<>>
    /\ observers = <<>>
    /\ lastEvent = [file |-> <<>>, project |-> NoProject, config |-> <<>>]
    /\ stopped = FALSE

\* /add <project_name> <project_path>
AddProject(n, path) ==
    /\ ~stopped
    /\ projects' = ConfigAddProject(n, path)
    /\ observers' = StartMonitoring(observers, projects', n)
    /\ UNCHANGED <<lastEvent, stopped>>
    /\ UNCHANGED nonProjVars

\* /remove <project_name>
RemoveProject(n) ==
    /\ ~stopped
    /\ IsConfigured(n)
    /\ observers' = StopMonitoring(observers, n)
    /\ projects' = ConfigRemoveProject(n)
    /\ UNCHANGED <<lastEvent, stopped>>
    /\ UNCHANGED nonProjVars

\* /toggle <project_name>
ToggleProject(n) ==
    /\ ~stopped
    /\ IsConfigured(n)
    /\ projects' = ConfigToggleProject(n)
    /\ observers' = IF ProjectInfo(n)'.enabled
                    THEN StartMonitoring(observers, projects', n)
                    ELSE StopMonitoring(observers, n)
    /\ UNCHANGED <<lastEvent, stopped>>
    /\ UNCHANGED nonProjVars

\* process_event: the first enabled project, in dict order, whose inbox
\* string occurs in the file's path
RECURSIVE FindProject(_, _, _)
FindProject(cfg, i, file) ==
    IF i > Len(cfg) THEN NoProject
    ELSE IF ~cfg[i].enabled THEN FindProject(cfg, i + 1, file)
    ELSE IF IsSubstring(InboxPath(cfg[i].path), file) THEN cfg[i].name
    ELSE FindProject(cfg, i + 1, file)

\* the Observer of project n reports a created .md file of the directory it
\* watches (recursive=False); process_event attributes it
FileEvent(n) ==
    /\ ~stopped
    /\ n \in DOMAIN observers
    /\ LET file == observers[n] \o <<"f.md">>
       IN lastEvent' = [file |-> file,
                        project |-> FindProject(projects, 1, file),
                        config |-> projects]
    /\ UNCHANGED <<projects, observers, stopped>>
    /\ UNCHANGED nonProjVars

\* the bot is started again: post_init starts monitoring every project of
\* the saved configuration
RestartProjects ==
    /\ observers' =
          [n \in {projects[i].name :
                     i \in {k \in 1..Len(projects) : projects[k].enabled}} |->
              InboxPath(ProjectInfo(n).path)]
    /\ stopped' = FALSE
    /\ UNCHANGED <<projects, lastEvent>>
    /\ UNCHANGED nonProjVars

\* main, "except KeyboardInterrupt:": every observer of the registry is
\* stopped, then every one is joined; the registry is left as it is
StopSignal ==
    /\ ~stopped
    /\ stopped' = TRUE
    /\ UNCHANGED <<projects, observers, lastEvent>>
    /\ UNCHANGED nonProjVars

(***************************************************************************)
(* Batch operations: _run_batch_operation_async                            *)
(* (telegram_project_manager_bot.py)                                       *)
(***************************************************************************)
\* projects_data["projects"], in dict order
FleetOrder == <<"one", "two">>
Fleet == {FleetOrder[i] : i \in 1..Len(FleetOrder)}
IdleRun == [pc |-> "idle"]
NoReport == [kind |-> "none"]

BatchInit ==
    /\ fleet = [p \in Fleet |-> "not_started"]
    /\ run = IdleRun
    /\ batchReport = NoReport

\* a container changes state outside the batch (operator, worker exit)
FleetChange(p, s) ==
    /\ run = IdleRun
    /\ s \in LifecycleStates
    /\ fleet' = [fleet EXCEPT ![p] = s]
    /\ UNCHANGED <<run, batchReport>>
    /\ UNCHANGED nonBatchVars

\* handle_batch_operation: asyncio.create_task(_run_batch_operation_async)
RunBatch(op) ==
    /\ run = IdleRun
    /\ run' = [pc |-> "status", op |-> op, i |-> 1, results |-> <<>>,
               queried |-> {}]
    /\ batchReport' = NoReport
    /\ UNCHANGED fleet
    /\ UNCHANGED nonBatchVars

\* the for loop goes to the next project, or ends: result_text is built and
\* the message edited
BatchAdvance(r) ==
    IF r.i < Len(FleetOrder)
    THEN /\ run' = [r EXCEPT !.pc = "status", !.i = @ + 1]
         /\ UNCHANGED batchReport
    ELSE /\ run' = IdleRun
         /\ batchReport' = [kind |-> "completed", results |-> r.results,
                            queried |-> r.queried]

\* "status = await self.project_manager.get_project_status(project)" for
\* the project at hand; raises: the call raises (int() of the project's
\* --iterations value, datetime.fromisoformat of the container's StartedAt),
\* which ends the task in its except branch
BatchQuery(raises) ==
    /\ run.pc = "status"
    /\ LET p == FleetOrder[run.i]
           r == [run EXCEPT !.queried = @ \cup {p}]
       IN IF raises
          THEN /\ run' = IdleRun
               /\ batchReport' = [kind |-> "error", results |-> <<>>,
                                  queried |-> r.queried]
          ELSE IF fleet[p] \in BatchEligible(run.op)
          THEN /\ run' = [r EXCEPT !.pc = "command"]
               /\ UNCHANGED batchReport
          ELSE BatchAdvance(r)
    /\ UNCHANGED fleet
    /\ UNCHANGED nonBatchVars

\* "success, _ = await self.project_manager.start_project(project)" (or
\* pause_project, stop_project) returns; results.append
BatchCommandReturn(outcome) ==
    /\ run.pc = "command"
    /\ LET p == FleetOrder[run.i]
           cmd == BatchCommand(run.op)
           r == [run EXCEPT !.results =
                    Append(@, [project |-> p,
                               success |-> CommandSuccess(outcome)])]
       IN /\ outcome = "zero" => fleet[p] \in ManagerAccepts(cmd)
          /\ fleet' = IF outcome = "zero"
                      THEN [fleet EXCEPT ![p] = ManagerEffect(cmd)]
                      ELSE fleet
          /\ BatchAdvance(r)
    /\ UNCHANGED nonBatchVars

(***************************************************************************)
(* Loading persisted state: ProcessedFilesTracker.load_processed_files and *)
(* RetryQueue.load_queue on files of any content                           *)
(***************************************************************************)
StoreKeys == {"k1"}
StoreHashes == {"h1", "h2"}
\* a value under a key of the JSON object: the record mark_file_processed
\* writes, or a JSON string
StoreEntries ==
    {[type |-> "object", hash |-> h] : h \in StoreHashes}
    \cup {[type |-> "string", hash |-> "none"]}
EmptyMembers == [k \in {} |-> [type |-> "object", hash |-> "none"]]

\* the file: missing, not openable, not JSON (truncated, empty, garbage), a
\* JSON array, or a JSON object
StoreFiles ==
    {[kind |-> "absent"], [kind |-> "unreadable"], [kind |-> "syntax"],
     [kind |-> "array"]}
    \cup {[kind |-> "object", members |-> m] :
             m \in UNION {[K -> StoreEntries] : K \in SUBSET StoreKeys}}

\* load_processed_files: json.load of an existing file, {} when that raises
\* or the file is missing
LoadProcessedFiles(file) ==
    CASE file.kind = "object" -> [type |-> "dict", members |-> file.members]
      [] file.kind = "array" -> [type |-> "list", members |-> EmptyMembers]
      [] OTHER -> [type |-> "dict", members |-> EmptyMembers]

\* is_file_processed after the load: "file_key in processed_files", then
\* "processed_files[file_key].get('hash')", which raises on a value that is
\* not a dict
IsProcessedResult(value, k, h) ==
    IF value.type = "list" \/ k \notin DOMAIN value.members
    THEN [raised |-> FALSE, value |-> FALSE]
    ELSE IF value.members[k].type # "object"
    THEN [raised |-> TRUE, value |-> FALSE]
    ELSE [raised |-> FALSE, value |-> value.members[k].hash = h]

\* mark_file_processed after the load: "processed_files[file_key] = {...}"
\* raises on a list; otherwise save_processed_files rewrites the file
MarkRaises(value) == value.type = "list"

MarkedFile(value, k, h) ==
    [kind |-> "object",
     members |-> [x \in (DOMAIN value.members) \cup {k} |->
                     IF x = k THEN [type |-> "object", hash |-> h]
                     ELSE value.members[x]]]

\* entries of retry_queue.json: a retry item as add_retry writes it, or
\* any other JSON value
QueueEntries == {[type |-> "dict"], [type |-> "number"]}
QueueFiles ==
    {[kind |-> "absent"], [kind |-> "unreadable"], [kind |-> "syntax"],
     [kind |-> "object"]}
    \cup {[kind |-> "array", items |-> s] :
             s \in UNION {[1..n -> QueueEntries] : n \in 0..MaxItems}}

\* load_queue: "for item in items: self.queue.put(item)"; iterating a JSON
\* object yields its keys
LoadedItems(file) ==
    CASE file.kind = "array" -> file.items
      [] file.kind = "object" -> <<[type |-> "string"]>>
      [] OTHER -> <<>>

NoOp == [op |-> "none", raised |-> FALSE]
NotLoaded == [done |-> FALSE]

LoadInit ==
    /\ storeFile = [kind |-> "absent"]
    /\ retryFile = [kind |-> "absent"]
    /\ loaded = NotLoaded
    /\ opLog = NoOp

\* the dedup file is damaged or replaced while the bot is not writing it
CorruptStore(file) ==
    /\ storeFile' = file
    /\ UNCHANGED <<retryFile, loaded, opLog>>
    /\ UNCHANGED nonLoadVars

\* the retry file is damaged or replaced before the bot starts
CorruptQueue(file) ==
    /\ loaded = NotLoaded
    /\ retryFile' = file
    /\ UNCHANGED <<storeFile, loaded, opLog>>
    /\ UNCHANGED nonLoadVars

\* is_file_processed(project_name, file_path)
IsFileProcessedCall(k, h) ==
    /\ LET r == IsProcessedResult(LoadProcessedFiles(storeFile), k, h)
       IN opLog' = [op |-> "is_file_processed", file |-> storeFile,
                    raised |-> r.raised, value |-> r.value]
    /\ UNCHANGED <<storeFile, retryFile, loaded>>
    /\ UNCHANGED nonLoadVars

\* mark_file_processed(project_name, file_path)
MarkFileProcessedCall(k, h) ==
    /\ LET value == LoadProcessedFiles(storeFile)
       IN /\ opLog' = [op |-> "mark_file_processed", file |-> storeFile,
                       raised |-> MarkRaises(value), value |-> FALSE]
          /\ storeFile' = IF MarkRaises(value) THEN storeFile
                          ELSE MarkedFile(value, k, h)
    /\ UNCHANGED <<retryFile, loaded>>
    /\ UNCHANGED nonLoadVars

\* RetryQueue.__init__: load_queue
LoadQueue ==
    /\ loaded = NotLoaded
    /\ loaded' = [done |-> TRUE, file |-> retryFile,
                  queue |-> LoadedItems(retryFile)]
    /\ UNCHANGED <<storeFile, retryFile, opLog>>
    /\ UNCHANGED nonLoadVars

\* one round of retry_worker on the loaded queue: get_retry pops the head and
\* saves the rest; "retry_item['message_data']" raises on an entry that is
\* not a dict, inside the worker's own try block
RetryRound ==
    /\ loaded # NotLoaded
    /\ loaded.queue # <<>>
    /\ loaded' = [loaded EXCEPT !.queue = Tail(@)]
    /\ retryFile' = [kind |-> "array", items |-> Tail(loaded.queue)]
    /\ opLog' = [op |-> "retry_worker", file |-> retryFile, raised |-> FALSE,
                 value |-> Head(loaded.queue).type = "dict"]
    /\ UNCHANGED storeFile
    /\ UNCHANGED nonLoadVars

(***************************************************************************)
(* InboxWatcher of telegram_project_manager_bot.py: one thread per         *)
(* created-event, each running process_new_file in its own event loop      *)
(***************************************************************************)
\* .md files of one project's inbox
InboxFiles == {"a.md", "b.md"}

\* "if str(file_path) in self.processing_files"
AlreadyProcessingNever(f) == FALSE

AlreadyProcessing(f) == f \in processing

InboxInit ==
    /\ threads = <<>>
    /\ processing = {}
    /\ store = {}
    /\ observed = <<>>
    /\ sent = <<>>
    /\ mtime = [f \in InboxFiles |-> 0]

\* file_key = f"{file_path.name}_{file_path.stat().st_mtime}"
InboxFileKey(f) == <<f, mtime[f]>>

\* the file is written again; the handler has no on_modified, so the event
\* starts nothing
OnModified(f) ==
    /\ mtime[f] < MaxMtime
    /\ mtime' = [mtime EXCEPT ![f] = @ + 1]
    /\ UNCHANGED <<threads, processing, store, observed, sent>>
    /\ UNCHANGED nonInboxVars

\* on_created: Thread(target=self._process_file_thread, ...).start()
OnCreated(f) ==
    /\ Len(threads) < MaxEvents
    /\ threads' = Append(threads,
          [file |-> f, pc |-> "begin", loaded |-> {}, out |-> "none"])
    /\ UNCHANGED <<processing, store, observed, sent, mtime>>
    /\ UNCHANGED nonInboxVars

\* the thread ends: "finally: self.processing_files.discard(str(file_path))"
Leave(i, out) ==
    /\ threads' = [threads EXCEPT ![i].pc = "done", ![i].out = out,
                                  ![i].loaded = {}]
    /\ processing' = processing \ {threads[i].file}

\* process_new_file: "with self.processing_lock: ..."; a path already in the
\* set makes the thread return at once
Begin(i) ==
    /\ threads[i].pc = "begin"
    /\ IF AlreadyProcessing(threads[i].file)
       THEN /\ threads' = [threads EXCEPT ![i].pc = "done",
                                          ![i].out = "ignored"]
            /\ UNCHANGED processing
       ELSE /\ threads' = [threads EXCEPT ![i].pc = "check"]
            /\ processing' = processing \cup {threads[i].file}
    /\ UNCHANGED <<store, observed, sent, mtime>>
    /\ UNCHANGED nonInboxVars

\* process_new_file: the project is looked up (matched: one is found), then
\* is_file_processed loads the dedup file and looks the file up
Check(i, matched) ==
    /\ threads[i].pc = "check"
    /\ IF ~matched
       THEN Leave(i, "unmatched") /\ UNCHANGED observed
       ELSE IF InboxFileKey(threads[i].file) \in store
       THEN Leave(i, "not new") /\ UNCHANGED observed
       ELSE /\ threads' = [threads EXCEPT ![i].pc = "send"]
            /\ observed' = Append(observed, i)
            /\ UNCHANGED processing
    /\ UNCHANGED <<store, sent, mtime>>
    /\ UNCHANGED nonInboxVars

\* "await self.bot.send_message(...)" returns (ok) or raises
Send(i, ok) ==
    /\ threads[i].pc = "send"
    /\ IF ok
       THEN /\ threads' = [threads EXCEPT ![i].pc = "mark"]
            /\ sent' = Append(sent, i)
            /\ UNCHANGED processing
       ELSE Leave(i, "error") /\ UNCHANGED sent
    /\ UNCHANGED <<store, observed, mtime>>
    /\ UNCHANGED nonInboxVars

\* mark_file_processed: "processed_files = self.load_processed_files(...)"
MarkLoad(i) ==
    /\ threads[i].pc = "mark"
    /\ threads' = [threads EXCEPT ![i].pc = "save", ![i].loaded = store]
    /\ UNCHANGED <<processing, store, observed, sent, mtime>>
    /\ UNCHANGED nonInboxVars

\* mark_file_processed: the entry is set in the loaded dict and
\* save_processed_files writes the dict, under the lock
MarkSave(i) ==
    /\ threads[i].pc = "save"
    /\ store' = threads[i].loaded \cup {InboxFileKey(threads[i].file)}
    /\ Leave(i, "marked")
    /\ UNCHANGED <<observed, sent, mtime>>
    /\ UNCHANGED nonInboxVars

(***************************************************************************)
(* RetryQueue (inbox bot) step by step: add_retry is called by the watcher *)
(* thread (process_new_message, except branch) and by the loop             *)
(* (send_telegram_message_safe), get_retry by the loop (retry_worker)      *)
(***************************************************************************)
QueueCallers == {"watcher", "loop"}

IdleCaller == [pc |-> "idle", items |-> <<>>, temp |-> <<>>]

RqInit ==
    /\ rq = <<>>
    /\ rqFile = <<>>
    /\ callers = [a \in QueueCallers |-> IdleCaller]
    /\ nPut = 0
    /\ taken = {}

\* add_retry: "self.queue.put(retry_item)", save_queue follows
AddRetryPut(a) ==
    /\ callers[a].pc = "idle"
    /\ nPut < MaxPut
    /\ nPut' = nPut + 1
    /\ rq' = Append(rq, nPut + 1)
    /\ callers' = [callers EXCEPT ![a].pc = "drain"]
    /\ UNCHANGED <<rqFile, taken>>
    /\ UNCHANGED nonRqVars

\* get_retry on a non-empty queue: "item = self.queue.get()", save_queue
\* follows
GetRetryGet ==
    /\ callers["loop"].pc = "idle"
    /\ rq # <<>>
    /\ taken' = taken \cup {Head(rq)}
    /\ rq' = Tail(rq)
    /\ callers' = [callers EXCEPT !["loop"].pc = "drain"]
    /\ UNCHANGED <<rqFile, nPut>>
    /\ UNCHANGED nonRqVars

\* save_queue, body of the first loop: "items.append(item)" and
\* "temp_queue.put(item)"
DrainedNotListed(c, item) == [c EXCEPT !.temp = Append(@, item)]

Drained(c, item) ==
    [c EXCEPT !.items = Append(@, item), !.temp = Append(@, item)]

\* save_queue, first loop: one item moves from the queue to items and
\* temp_queue; an empty queue ends the loop
SaveDrain(a) ==
    /\ callers[a].pc = "drain"
    /\ IF rq = <<>>
       THEN /\ callers' = [callers EXCEPT ![a].pc = "restore"]
            /\ UNCHANGED rq
       ELSE /\ callers' = [callers EXCEPT ![a] = Drained(@, Head(rq))]
            /\ rq' = Tail(rq)
    /\ UNCHANGED <<rqFile, nPut, taken>>
    /\ UNCHANGED nonRqVars

\* save_queue, second loop: "self.queue.put(temp_queue.get())"
SaveRestore(a) ==
    /\ callers[a].pc = "restore"
    /\ IF callers[a].temp = <<>>
       THEN /\ callers' = [callers EXCEPT ![a].pc = "write"]
            /\ UNCHANGED rq
       ELSE /\ callers' = [callers EXCEPT ![a].temp = Tail(@)]
            /\ rq' = Append(rq, Head(callers[a].temp))
    /\ UNCHANGED <<rqFile, nPut, taken>>
    /\ UNCHANGED nonRqVars

\* the bot stops at any moment and is started again: RetryQueue.__init__
\* calls load_queue, which puts the items of the file in their order
RestartQueue ==
    /\ rq' = rqFile
    /\ callers' = [a \in QueueCallers |-> IdleCaller]
    /\ UNCHANGED <<rqFile, nPut, taken>>
    /\ UNCHANGED nonRqVars

\* save_queue: "with self.lock: ... json.dump(items, f, indent=2)"
SaveWrite(a) ==
    /\ callers[a].pc = "write"
    /\ rqFile' = callers[a].items
    /\ callers' = [callers EXCEPT ![a] = IdleCaller]
    /\ UNCHANGED <<rq, nPut, taken>>
    /\ UNCHANGED nonRqVars

(***************************************************************************)
(* send_telegram_message_safe: the sends of one payload, chunk by chunk    *)
(***************************************************************************)
\* "if len(message) <= 4096" one send of the message, else one send per
\* part of split_message
Outgoing ==
    IF Len(message) <= MaxLength THEN <<message>> ELSE split_message(message)

\* the for loop is inside the try block: an exception of one send ends it
ContinuesAfterAny(outcome) == TRUE

ContinuesAfter(outcome) == outcome = "ok"

ChunkInit ==
    /\ sending = [attempt |-> 0, i |-> 0, state |-> "idle"]
    /\ chan = <<>>
    /\ failedAt = [a \in 1..MaxAttempts |-> 0]

\* the coroutine is entered: first from the watcher, later from retry_worker
\* after a failed attempt
StartSend ==
    /\ sending.state \in {"idle", "failed"}
    /\ sending.attempt < MaxAttempts
    /\ sending' = [attempt |-> sending.attempt + 1, i |-> 1,
                   state |-> IF Outgoing = <<>> THEN "done" ELSE "sending"]
    /\ UNCHANGED <<chan, failedAt>>
    /\ UNCHANGED nonChunkVars

\* one "await self.bot.send_message(...)" returns (ok) or raises
SendPart(outcome) ==
    /\ sending.state = "sending"
    /\ chan' = IF outcome = "ok"
               THEN Append(chan, <<sending.attempt, sending.i>>) ELSE chan
    /\ failedAt' = IF outcome = "ok" \/ failedAt[sending.attempt] # 0
                   THEN failedAt
                   ELSE [failedAt EXCEPT ![sending.attempt] = sending.i]
    /\ sending' =
          IF ~ContinuesAfter(outcome)
          THEN [sending EXCEPT !.state = "failed"]
          ELSE IF sending.i = Len(Outgoing)
          THEN [sending EXCEPT !.state =
                   IF failedAt'[sending.attempt] = 0 THEN "done" ELSE "failed"]
          ELSE [sending EXCEPT !.i = @ + 1]
    /\ UNCHANGED nonChunkVars

(***************************************************************************)
(* _get_iteration_progress_sync and its use in get_project_status          *)
(***************************************************************************)
\* a line of the log tail: the stream it was written to, and the
\* "Iteration c/t" marker it holds, if any
NoMarker == <<>>
Markers == {<<1, 2>>, <<2, 2>>, <<1, 0>>}
LogLines == [stream : {"stdout", "stderr"}, marker : {NoMarker} \cup Markers]

\* the tails of at most MaxLines lines, in the order they were written
RECURSIVE WindowsUpTo(_)
WindowsUpTo(n) ==
    IF n = 0 THEN {<<>>}
    ELSE LET shorter == WindowsUpTo(n - 1)
         IN shorter \cup {Append(w, l) : w \in shorter, l \in LogLines}

\* re.findall(r'Iteration (\d+)/(\d+)', result.stdout + result.stderr)
FindIterations(window) ==
    LET of(s) == SelectSeq(window, LAMBDA l : l.stream = s)
        text == of("stdout") \o of("stderr")
        hits == SelectSeq(text, LAMBDA l : l.marker # NoMarker)
    IN [k \in 1..Len(hits) |-> hits[k].marker]

\* _get_iteration_progress_sync: call is how "docker logs --tail 100" ended
\* (ok, a non-zero return code, or an exception such as the timeout)
NoProgress == <<>>
GetIterationProgressSync(window, call) ==
    IF call # "ok" THEN NoProgress
    ELSE LET matches == FindIterations(window)
         IN IF matches = <<>> THEN NoProgress ELSE matches[Len(matches)]

ProgressInit ==
    progress = [window |-> <<>>, call |-> "none", state |-> "none",
                current |-> 0, percent |-> 0]

\* get_project_status, "Get iteration progress from logs if running"
StatusProgress(window, call, state) ==
    /\ LET info == IF state \in {"running", "paused", "completed"}
                   THEN GetIterationProgressSync(window, call)
                   ELSE NoProgress
       IN progress' =
            [window |-> window, call |-> call, state |-> state,
             current |-> IF info = NoProgress THEN 0 ELSE info[1],
             percent |-> IF info = NoProgress THEN 0
                         ELSE IF info[2] > 0 THEN (info[1] * 100) \div info[2]
                         ELSE 0]
    /\ UNCHANGED nonProgVars

(***************************************************************************)
(* extract_response_from_logs                                              *)
(***************************************************************************)
\* The lines of a log by what the function tests in them: "marker" holds
\* 'RESPONSE:' or 'Answer:', "end" holds '---' or 'END', "bracket" starts
\* with '[', "blank" is empty or white space, "text" is any other line.
LineKinds == {"marker", "end", "bracket", "blank", "text"}

RECURSIVE LogsUpTo(_)
LogsUpTo(n) ==
    IF n = 0 THEN {<<>>}
    ELSE LET shorter == LogsUpTo(n - 1)
         IN shorter \cup {Append(l, k) : l \in shorter, k \in LineKinds}

\* the for loop: the positions appended to response_lines, from line i on
RECURSIVE ResponseLines(_, _, _)
ResponseLines(log, i, in_response) ==
    IF i > Len(log) THEN <<>>
    ELSE IF log[i] = "marker" THEN ResponseLines(log, i + 1, TRUE)
    ELSE IF in_response /\ log[i] = "end" THEN <<>>
    ELSE IF in_response THEN <<i>> \o ResponseLines(log, i + 1, TRUE)
    ELSE ResponseLines(log, i + 1, FALSE)

\* str.strip() of the joined lines: blank lines at both ends disappear
RECURSIVE StripLines(_, _)
StripLines(log, ls) ==
    IF ls = <<>> THEN ls
    ELSE IF log[ls[1]] = "blank" THEN StripLines(log, Tail(ls))
    ELSE IF log[ls[Len(ls)]] = "blank"
    THEN StripLines(log, SubSeq(ls, 1, Len(ls) - 1))
    ELSE ls

\* "[l for l in lines if l.strip() and not l.startswith('[')]"
SignificantLines(log) ==
    SelectSeq([i \in 1..Len(log) |-> i],
              LAMBDA i : log[i] \notin {"blank", "bracket"})

LastLines(ls) ==
    IF Len(ls) <= FallbackLines THEN ls
    ELSE SubSeq(ls, Len(ls) - FallbackLines + 1, Len(ls))

\* the value returned: None (no line has position 0), or the positions of
\* the lines of the text
NoResult == <<0>>
ExtractResponse(log) ==
    IF ResponseLines(log, 1, FALSE) # <<>>
    THEN StripLines(log, ResponseLines(log, 1, FALSE))
    ELSE IF SignificantLines(log) # <<>>
    THEN LastLines(SignificantLines(log))
    ELSE NoResult

ExtractInit == extracted = [log |-> <<>>, result |-> NoResult]

\* monitor_temp_container: "response = self.extract_response_from_logs(...)"
ExtractCall(log) ==
    /\ extracted' = [log |-> log, result |-> ExtractResponse(log)]
    /\ UNCHANGED nonExtractVars

(***************************************************************************)
(* Replies: the Reply button of a notification, button_callback,           *)
(* handle_message (names are ASCII without a colon)                        *)
(***************************************************************************)
\* the configured projects and the notified files, by name
ReplyProjects == {<<"a", "b">>, <<"a", "b", "c">>, <<"b">>}
ReplyFiles == {<<"f">>, <<"f", "g", "h">>}

\* name[:20], with NameCut standing for 20
Cut(name) == IF Len(name) <= NameCut THEN name ELSE SubSeq(name, 1, NameCut)

\* callback_data of the Reply button: process_new_message builds
\* "r:{project_name[:20]}:{file_path.name[:20]}"; send_telegram_message_safe
\* rebuilds "reply:{project_name}:{file_name}" for an item of the retry queue
ReplyData(project, file, via) ==
    IF via = "direct"
    THEN <<"r", Cut(project), Cut(file)>>
    ELSE <<"reply", project, file>>

NoNotification == [origin |-> <<>>, data |-> <<>>]
NoReplyTo == [project |-> <<>>, file |-> <<>>, origin |-> <<>>]
NoReply == [origin |-> <<>>, target |-> <<>>, handled |-> FALSE]

ReplyInit ==
    /\ notif = NoNotification
    /\ replyTo = NoReplyTo
    /\ lastReply = NoReply

\* a notification of project's file reaches the chat, sent at once or by
\* retry_worker
NotificationShown(project, file, via) ==
    /\ notif' = [origin |-> project, data |-> ReplyData(project, file, via)]
    /\ UNCHANGED <<replyTo, lastReply>>
    /\ UNCHANGED nonReplyVars

\* button_callback, actions 'r' and 'reply'
ClickReply ==
    /\ notif # NoNotification
    /\ replyTo' = [project |-> notif.data[2], file |-> notif.data[3],
                   origin |-> notif.origin]
    /\ UNCHANGED <<notif, lastReply>>
    /\ UNCHANGED nonReplyVars

\* handle_message with a reply pending: an unknown project is refused, else
\* send_user_message_to_project writes into that project's from_human
HandleReplyMessage ==
    /\ replyTo # NoReplyTo
    /\ lastReply' = [origin |-> replyTo.origin,
                     target |-> IF replyTo.project \in ReplyProjects
                                THEN replyTo.project ELSE <<>>,
                     handled |-> TRUE]
    /\ replyTo' = NoReplyTo
    /\ UNCHANGED notif
    /\ UNCHANGED nonReplyVars

(***************************************************************************)
(* RecentQuestions.add_question / save, called by handle_ask_question and  *)
(* handle_direct_ask on the event loop                                     *)
(***************************************************************************)
QuestionTexts == {"q1", "q2"}

RECURSIVE HistoriesUpTo(_)
HistoriesUpTo(n) ==
    IF n = 0 THEN {<<>>}
    ELSE LET shorter == HistoriesUpTo(n - 1)
         IN shorter \cup {Append(h, t) : h \in shorter, t \in QuestionTexts}

\* the recent_questions.json files load() can find: any projects, each
\* with a list no longer than the limit
QuestionFiles ==
    UNION {[ps -> HistoriesUpTo(HistoryLimit)] : ps \in SUBSET ProjectNames}

\* "self.questions[project][:10]", with HistoryLimit standing for 10
KeepRecent(list) ==
    IF Len(list) <= HistoryLimit THEN list ELSE SubSeq(list, 1, HistoryLimit)

AskInit ==
    /\ questions = <<>>
    /\ fromFile = FALSE
    /\ qLock = FALSE
    /\ asker = "new"

\* RecentQuestions.__init__: load() returns the dict of the file, or an
\* empty defaultdict(list) when there is no readable file
LoadRecent(exists, file) ==
    /\ asker = "new"
    /\ asker' = "idle"
    /\ fromFile' = exists
    /\ questions' = IF exists THEN file ELSE <<>>
    /\ UNCHANGED qLock
    /\ UNCHANGED nonAskVars

\* add_question up to its call of save(): the lock is taken, the question
\* is put in front and the list cut; a project missing from a loaded dict
\* raises KeyError, which leaves the with block
AddQuestion(project, question) ==
    /\ asker = "idle"
    /\ ~qLock
    /\ IF fromFile /\ project \notin DOMAIN questions
       THEN /\ asker' = "raised"
            /\ UNCHANGED <<questions, qLock>>
       ELSE /\ asker' = "save"
            /\ qLock' = TRUE
            /\ questions' =
                  [p \in DOMAIN questions \cup {project} |->
                      IF p = project
                      THEN KeepRecent(<<question>> \o
                              (IF p \in DOMAIN questions
                               THEN questions[p] ELSE <<>>))
                      ELSE questions[p]]
    /\ UNCHANGED fromFile
    /\ UNCHANGED nonAskVars

\* save(): "with self.lock:" on a threading.Lock; with the lock free the
\* file is written, add_question returns and the handler goes on to start
\* the instance; with the lock held the thread waits for it
Save ==
    /\ asker = "save"
    /\ IF qLock
       THEN asker' = "blocked" /\ UNCHANGED qLock
       ELSE asker' = "started" /\ UNCHANGED qLock
    /\ UNCHANGED <<questions, fromFile>>
    /\ UNCHANGED nonAskVars

(***************************************************************************)
(* Files written to inbox/from_human: send_user_message_to_project (inbox  *)
(* bot), handle_send_callback and send_to_inbox (project manager bot)      *)
(***************************************************************************)
\* the three writers and the prefix each puts before the time stamp
Writers == {"send_user_message_to_project", "handle_send_callback",
            "send_to_inbox"}
Prefix(writer) == IF writer = "send_to_inbox" THEN "telegram_pm_" ELSE "telegram_"

\* f"telegram_{datetime.now().strftime('%Y%m%d_%H%M%S')}.md": the prefix and
\* the time to the second
InboundName(writer, time) == <<Prefix(writer), time>>

InboundInit ==
    /\ inbound = [p \in ProjectNames |-> <<>>]
    /\ nMsg = 0

\* a message for project is accepted at time now: the file is opened with
\* mode 'w' under that name and the message written
WriteInbound(project, writer) ==
    /\ nMsg < MaxMsgs
    /\ nMsg' = nMsg + 1
    /\ LET name == InboundName(writer, now)
           dir == inbound[project]
       IN inbound' = [inbound EXCEPT ![project] =
             [f \in DOMAIN dir \cup {name} |->
                 IF f = name THEN nMsg + 1 ELSE dir[f]]]
    /\ UNCHANGED nonInboundVars

(***************************************************************************)
(* retry_middleware of examples/pythonlib/src/mware/decorators.py          *)
(***************************************************************************)
\* what the wrapped handler does call after call: TRUE raises an Exception,
\* FALSE returns; after the listed calls it returns
RECURSIVE HandlerScripts(_)
HandlerScripts(n) ==
    IF n = 0 THEN {<<>>}
    ELSE LET shorter == HandlerScripts(n - 1)
         IN shorter \cup {Append(s, b) : s \in shorter, b \in BOOLEAN}

Raises(script, call) == call <= Len(script) /\ script[call]

\* "max_retries = ctx.get('max_retries', 3)"; absent is -1 here
DefaultMaxRetries == 3
NotSet == -1
MaxRetriesOf(value) == IF value = NotSet THEN DefaultMaxRetries ELSE value

MwareInit ==
    retrying = [pc |-> "idle", max |-> 0, script |-> <<>>, attempt |-> 0,
                calls |-> 0, error |-> 0]

\* the decorated handler is called with a context
CallWithRetry(value, script) ==
    /\ retrying.pc = "idle"
    /\ retrying' = [pc |-> "loop", max |-> MaxRetriesOf(value),
                    script |-> script, attempt |-> 0, calls |-> 0,
                    error |-> 0]
    /\ UNCHANGED nonMwareVars

\* one round of "for attempt in range(max_retries)": the handler is awaited;
\* its result is returned, or its exception is kept and, in the last round,
\* raised again.  When range() is exhausted, "raise last_error" follows
\* (last_error is the value it was given last, None before any call).
RetryAttempt ==
    /\ retrying.pc = "loop"
    /\ LET call == retrying.calls + 1
       IN retrying' =
            IF retrying.attempt >= retrying.max
            THEN [retrying EXCEPT !.pc =
                     IF retrying.error = 0 THEN "TypeError" ELSE "raised"]
            ELSE IF ~Raises(retrying.script, call)
            THEN [retrying EXCEPT !.pc = "returned", !.calls = call]
            ELSE IF retrying.attempt < retrying.max - 1
            THEN [retrying EXCEPT !.calls = call, !.error = call,
                                  !.attempt = @ + 1]
            ELSE [retrying EXCEPT !.pc = "raised", !.calls = call,
                                  !.error = call]
    /\ UNCHANGED nonMwareVars

\* the caller holds the outcome; the next call starts afresh
CallOver ==
    /\ retrying.pc \in {"returned", "raised", "TypeError"}
    /\ retrying' = [retrying EXCEPT !.pc = "idle"]
    /\ UNCHANGED nonMwareVars

(***************************************************************************)
(* Specifications                                                          *)
(***************************************************************************)
Init ==
    /\ PipeInit /\ StatusInit /\ LifeInit /\ JobInit /\ SplitInit
    /\ ProjInit /\ BatchInit /\ LoadInit /\ InboxInit /\ RqInit
    /\ ChunkInit /\ ProgressInit /\ ExtractInit /\ ReplyInit
    /\ AskInit /\ InboundInit /\ MwareInit

\* the loop resumes one of its coroutines
SendStep == \E t \in BagToSet(tasks), o \in SendOutcomes : SendChunk(t, o)
FloodWakeStep == \E t \in BagToSet(tasks) : FloodWake(t)

Next ==
    \/ \E f \in Files, c \in Contents, keep \in BOOLEAN, ev \in BOOLEAN :
          Write(f, c, keep, ev)
    \/ \E f \in Files : Delete(f)
    \/ \E f \in Files : ProcessEvent(f)
    \/ WatcherTimeout
    \/ SendStep
    \/ FloodWakeStep
    \/ RetryWorkerStep
    \/ \E f \in Files, old \in BOOLEAN : ScanFile(f, old)
    \/ Restart

Spec == Init /\ [][Next]_vars

NextStatus ==
    \/ \E p \in Projects, info \in RawInfos : ContainerChange(p, info)
    \/ \E p \in Projects, fails \in BOOLEAN : GetProjectStatus(p, fails)

SpecStatus == Init /\ [][NextStatus]_vars

\* a pool thread's command ends
CmdReturnStep ==
    \E c \in cmds, o \in CmdOutcomes, n \in StderrLens : CmdReturn(c, o, n)

NextLifecycle ==
    \/ \E fails \in BOOLEAN : ShowProject(fails)
    \/ \E a \in Commands : ClickAction(a)
    \/ \E op \in BatchOps : BatchStart(op)
    \/ \E fails \in BOOLEAN : BatchStatus(fails)
    \/ BatchIssue
    \/ LauncherStart
    \/ CmdReturnStep
    \/ \E st \in {"completed", "stopped"} : ContainerExit(st)

SpecLifecycle == Init /\ [][NextLifecycle]_vars

JobIds == 1..Len(jobs)

NextJobs ==
    \/ Tick
    \/ AskQuestion
    \/ \E j \in JobIds, o \in CmdOutcomes, created \in BOOLEAN :
          StartReturn(j, o, created)
    \/ \E j \in JobIds : LoopTop(j)
    \/ \E j \in JobIds, fails \in BOOLEAN, raises \in BOOLEAN :
          Inspect(j, fails, raises)
    \/ \E j \in JobIds : CompleteRm(j)
    \/ \E j \in JobIds, ok \in BOOLEAN : TimeoutStop(j, ok)
    \/ \E j \in JobIds : TimeoutRm(j)
    \/ \E j \in JobIds : ExceptRm(j)
    \/ \E n \in TempNames : InstanceExit(n)
    \/ Shutdown

SpecJobs == Init /\ [][NextJobs]_vars

\* split_message applied to every text of Texts
InitSplit ==
    /\ PipeInit /\ StatusInit /\ LifeInit /\ JobInit /\ ProjInit
    /\ BatchInit /\ LoadInit /\ InboxInit /\ RqInit
    /\ ChunkInit
    /\ ProgressInit
    /\ ExtractInit
    /\ ReplyInit
    /\ AskInit
    /\ InboundInit
    /\ MwareInit
    /\ message \in Texts
    /\ parts = <<>>

NextSplit == SplitMessage

SpecSplit == InitSplit /\ [][NextSplit]_vars

NextProjects ==
    \/ \E n \in ProjectNames, path \in ProjectPaths : AddProject(n, path)
    \/ \E n \in ProjectNames : RemoveProject(n)
    \/ \E n \in ProjectNames : ToggleProject(n)
    \/ \E n \in ProjectNames : FileEvent(n)
    \/ RestartProjects
    \/ StopSignal

SpecProjects == Init /\ [][NextProjects]_vars

NextBatch ==
    \/ \E p \in Fleet, s \in LifecycleStates : FleetChange(p, s)
    \/ \E op \in BatchOps : RunBatch(op)
    \/ \E raises \in BOOLEAN : BatchQuery(raises)
    \/ \E o \in CmdOutcomes : BatchCommandReturn(o)

SpecBatch == Init /\ [][NextBatch]_vars

NextLoad ==
    \/ \E file \in StoreFiles : CorruptStore(file)
    \/ \E file \in QueueFiles : CorruptQueue(file)
    \/ \E k \in StoreKeys, h \in StoreHashes : IsFileProcessedCall(k, h)
    \/ \E k \in StoreKeys, h \in StoreHashes : MarkFileProcessedCall(k, h)
    \/ LoadQueue
    \/ RetryRound

SpecLoad == Init /\ [][NextLoad]_vars

ThreadIds == 1..Len(threads)

NextInboxWatcher ==
    \/ \E f \in InboxFiles : OnCreated(f)
    \/ \E f \in InboxFiles : OnModified(f)
    \/ \E i \in ThreadIds : Begin(i)
    \/ \E i \in ThreadIds, matched \in BOOLEAN : Check(i, matched)
    \/ \E i \in ThreadIds, ok \in BOOLEAN : Send(i, ok)
    \/ \E i \in ThreadIds : MarkLoad(i)
    \/ \E i \in ThreadIds : MarkSave(i)

SpecInboxWatcher == Init /\ [][NextInboxWatcher]_vars

NextRetryQueue ==
    \/ \E a \in QueueCallers : AddRetryPut(a)
    \/ GetRetryGet
    \/ \E a \in QueueCallers : SaveDrain(a)
    \/ \E a \in QueueCallers : SaveRestore(a)
    \/ \E a \in QueueCallers : SaveWrite(a)

SpecRetryQueue == Init /\ [][NextRetryQueue]_vars

NextChunks ==
    \/ StartSend
    \/ \E outcome \in {"ok", "error"} : SendPart(outcome)

SpecChunks == InitSplit /\ [][NextChunks]_vars

NextProgress ==
    \E window \in WindowsUpTo(MaxLines),
       call \in {"ok", "failed", "raised"},
       state \in {"running", "paused", "completed", "stopped"} :
          StatusProgress(window, call, state)

SpecProgress == Init /\ [][NextProgress]_vars

NextExtract == \E log \in LogsUpTo(MaxLog) : ExtractCall(log)

SpecExtract == Init /\ [][NextExtract]_vars

NextReply ==
    \/ \E project \in ReplyProjects, file \in ReplyFiles,
          via \in {"direct", "retry"} : NotificationShown(project, file, via)
    \/ ClickReply
    \/ HandleReplyMessage

SpecReply == Init /\ [][NextReply]_vars

\* the retry queue used from the loop only
NextRetryQueueLoop ==
    \/ AddRetryPut("loop")
    \/ GetRetryGet
    \/ SaveDrain("loop")
    \/ SaveRestore("loop")
    \/ SaveWrite("loop")
    \/ RestartQueue

SpecRetryQueueLoop == Init /\ [][NextRetryQueueLoop]_vars

NextAsk ==
    \/ \E exists \in BOOLEAN, file \in QuestionFiles : LoadRecent(exists, file)
    \/ \E project \in ProjectNames, question \in QuestionTexts :
          AddQuestion(project, question)
    \/ Save

SpecAsk == Init /\ [][NextAsk]_vars

NextInbound ==
    \/ Tick
    \/ \E project \in ProjectNames, writer \in Writers :
          WriteInbound(project, writer)

SpecInbound == Init /\ [][NextInbound]_vars

NextMware ==
    \/ \E value \in {NotSet} \cup 0..MaxRetriesArg,
          script \in HandlerScripts(MaxScript) : CallWithRetry(value, script)
    \/ RetryAttempt
    \/ CallOver

SpecMware == Init /\ [][NextMware]_vars

(***************************************************************************)
(* Properties                                                              *)
(***************************************************************************)
QueueObs(q) == {q[i].message_data.obs : i \in 1..Len(q)}

\* nothing is in flight: no coroutine, no queued retry, no pending event,
\* the startup scan is done and the watcher thread is idle
Quiescent ==
    /\ tasks = EmptyBag
    /\ queue = <<>>
    /\ events = {}
    /\ scanTodo = {}
    /\ watcher.pc = "idle"

\* C1: a file that was written at least twice, always with the same content
\* (with whatever mtime, seen by an event or by the startup scan), and is
\* still there has had at most one notification delivered.
C1_IdenticalContentOneNotification ==
    \A f \in Files, c \in Contents :
        (Exists(f) /\ nWrites >= 2 /\ everHad[f] = {c})
            => DeliveredOf(f, c) <= 1

\* C2: whenever the handler or the startup scan looks at an existing file,
\* the file is taken as new (process_new_message is called) iff the store
\* holds no record under its (name, mtime) key or the stored fingerprint
\* differs from the fingerprint of the current content.
C2_NewIffNoRecordOrOtherHash ==
    [][\A f \in Files :
        LET noRecordOrOtherHash ==
                \/ <<f, disk[f].mtime>> \notin DOMAIN processed
                \/ processed[<<f, disk[f].mtime>>] # Md5(disk[f].content)
            takenAsNew == Len(obsLog') = Len(obsLog) + 1
        IN /\ (epoch' = epoch /\ f \in events /\ f \notin events'
                 /\ disk[f].content # NoContent)
              => (takenAsNew <=> noRecordOrOtherHash)
           /\ (f \in scanTodo /\ f \notin scanTodo' /\ takenAsNew)
              => noRecordOrOtherHash
      ]_vars

\* C2 witness: a file rewritten under a key that already had a record was
\* taken as new and its notification delivered.
C2_Witness ==
    \E o \in ObsIds : obsLog[o].collided /\ delivered[o] >= 1

\* C3: a file marked seen before a restart and unchanged since is never
\* delivered again after that restart.
C3_NoRedeliveryAfterRestart == redelivered = {}

\* C4: every record of the dedup store describes a file version (name,
\* mtime, fingerprint) whose notification was sent completely before.
C4_RecordOnlyAfterDelivery ==
    \A k \in DOMAIN processed :
        \E c \in Contents : processed[k] = Md5(c) /\ EverDelivered(k[1], c)

\* C5: in a run without restart, once nothing is in flight any more, every
\* file observed as new was delivered at least once or its drop was recorded
\* as a permanent failure.
C5_DeliveredOrRecordedDrop ==
    (Quiescent /\ epoch = 0) =>
        \A o \in ObsIds : delivered[o] >= 1 \/ o \in permFail

\* C6: a notification that succeeded after fewer than three failed sends
\* was delivered exactly once and has no entry left in the retry queue, in
\* memory or on disk.
C6_OneDeliveryNoResidue ==
    \A o \in okAfter :
        /\ delivered[o] = 1
        /\ o \notin QueueObs(queue)
        /\ o \notin QueueObs(queueFile)

C8_DropIsRecorded == \A d \in dropped : d.obs \in permFail

\* C9: after an item was given up, the startup scan of a later restart does
\* not take the same unchanged file (same name, mtime and content) up for
\* sending again.
C9_NeverResurrected ==
    \A d \in dropped : \A o \in ObsIds :
        (obsLog[o].origin = "scan" /\ obsLog[o].epoch > d.epoch) =>
            ~ /\ obsLog[o].file = obsLog[d.obs].file
              /\ obsLog[o].mtime = obsLog[d.obs].mtime
              /\ obsLog[o].content = obsLog[d.obs].content

C12_OneCommandInFlight == Cardinality(cmds) <= 1

\* C13: a command is reported successful only if the manager returned zero
\* for it; on any other end the caller is told failure together with the
\* error text as the command layer returned it, and the supervisor changes
\* no state of its own.
C13_SuccessOnlyOnZero ==
    /\ \A r \in reports :
          /\ r.success => r.outcome = "zero"
          /\ r.outcome # "zero" => (~r.success /\ r.text = r.output)
    /\ launches # "failed"

\* the source states from which the operator-driven transition of a command
\* starts
ValidSources(cmd) ==
    CASE cmd = "start" -> {"not_started", "stopped", "completed"}
      [] cmd = "pause" -> {"running"}
      [] cmd = "resume" -> {"paused"}
      [] cmd = "stop" -> {"running", "paused"}

\* C14: every command the project manager bot hands to the external process
\* manager (from an action button or a batch operation) was issued while
\* the project was in a valid source state of its transition; stated for
\* the runs in which the launcher of the inbox bot takes no part.
C14_IssuedFromValidSource ==
    launches = "none" => \A c \in cmds : c.src \in ValidSources(c.cmd)

C16_RemovedOnEveryExit ==
    \A j \in JobIds :
        jobs[j].pc = "done" /\ jobs[j].outcome # "start failed" =>
            instances[jobs[j].name] = "absent"

\* C17: no two ephemeral jobs are ever given the same disposable instance
\* name, however close in time they are asked.
C17_UniqueNames ==
    \A i \in JobIds, j \in JobIds :
        i # j => jobs[i].name # jobs[j].name

\* C18: every chunk returned by split_message is at most max_length long,
\* also when a line longer than max_length follows other lines.
C18_ChunksWithinLimit ==
    \A i \in 1..Len(parts) : Len(parts[i]) <= MaxLength

\* C19: the chunks returned by split_message, concatenated in order, give
\* back the message when nothing but one line break is put back (or not) at
\* the end of each chunk: no character is lost, added or reordered.
C19_ConcatenationReproduces ==
    LET RECURSIVE Joined(_)
        Joined(ps) ==
            IF ps = <<>> THEN {<<>>}
            ELSE {ps[1] \o sep \o rest :
                     sep \in {<<>>, <<"\n">>}, rest \in Joined(Tail(ps))}
    IN parts # <<>> => message \in Joined(parts)

\* C20: from a rate-limit error until the wait it carries is over (the
\* coroutine that received it is still in its flood-control sleep), no
\* coroutine of the loop makes a send to the channel.
C20_NoSendDuringFloodWait ==
    [][(\E t \in BagToSet(tasks) : t.phase = "flood") => ~SendStep]_vars

\* C21: every created-event is attributed to an enabled project whose
\* outbound directory is a leading part of the file's path, and to no
\* project when there is none.
C21_AttributedByPrefix ==
    LET cfg == lastEvent.config
        owners == {cfg[i].name : i \in
                     {k \in 1..Len(cfg) :
                         /\ cfg[k].enabled
                         /\ IsPrefix(InboxPath(cfg[k].path), lastEvent.file)}}
    IN lastEvent.file # <<>> =>
          IF owners = {} THEN lastEvent.project = NoProject
          ELSE lastEvent.project \in owners

\* C28: after any sequence of add, remove, toggle and restart, a project has
\* an observer iff it is configured and enabled, and the observer watches the
\* project's current outbound directory.
C28_ObserverIffEnabled ==
    \A n \in ProjectNames :
        /\ n \in DOMAIN observers <=>
               IsConfigured(n) /\ ProjectInfo(n).enabled
        /\ n \in DOMAIN observers =>
               observers[n] = InboxPath(ProjectInfo(n).path)

\* C22: a batch operation that has ended was not aborted: the status of
\* every project was queried, and the report lists the outcome of every
\* project a command was issued for.
C22_BatchNeverAborts ==
    batchReport # NoReport =>
        /\ batchReport.kind = "completed"
        /\ batchReport.queried = Fleet

\* a dedup file, a retry file, that the bot itself could have written
WellFormedStore(file) ==
    \/ file.kind = "absent"
    \/ /\ file.kind = "object"
       /\ \A k \in DOMAIN file.members : file.members[k].type = "object"

WellFormedQueue(file) ==
    \/ file.kind = "absent"
    \/ /\ file.kind = "array"
       /\ \A i \in 1..Len(file.items) : file.items[i].type = "dict"

\* C23: a dedup or retry file that is unreadable or malformed counts as
\* empty: no dedup operation raises, a check against such a file answers
\* "not processed", and the queue loaded from such a file is empty.
C23_CorruptTreatedAsEmpty ==
    /\ ~opLog.raised
    /\ opLog.op = "is_file_processed" /\ ~WellFormedStore(opLog.file) =>
           ~opLog.value
    /\ loaded # NotLoaded /\ ~WellFormedQueue(loaded.file) =>
           LoadedItems(loaded.file) = <<>>

\* C24: notifications are sent in the order in which their files were
\* found new: of two sent notifications, the one sent first was observed
\* first.
C24_SentInObservedOrder ==
    LET Pos(s, x) == CHOOSE k \in 1..Len(s) : s[k] = x
    IN \A i \in 1..Len(sent), j \in 1..Len(sent) :
          i < j => Pos(observed, sent[i]) < Pos(observed, sent[j])

\* C25: the dedup file loses no record under concurrent marking: every file
\* whose mark_file_processed has returned is recorded in the file.
C25_NoRecordLost ==
    \A i \in ThreadIds :
        threads[i].out = "marked" =>
            \E t \in 0..MaxMtime : <<threads[i].file, t>> \in store

\* the threads inside process_new_file's try block
Handling == {i \in ThreadIds : threads[i].pc \in {"check", "send", "mark", "save"}}

\* C30: at most one thread at a time handles a path; the mid-processing set
\* holds exactly the paths being handled, so every exit removes the path; a
\* thread started for a path in the set leaves without handling it and
\* without touching the set; a modification starts no thread.
C30_OneHandlerPerPath ==
    [][/\ \A i, j \in Handling' :
            threads'[i].file = threads'[j].file => i = j
       /\ processing' = {threads'[i].file : i \in Handling'}
       /\ \A i \in ThreadIds :
            (/\ threads[i].pc = "begin"
             /\ threads'[i].pc # "begin"
             /\ threads[i].file \in processing)
            => /\ threads'[i].out = "ignored"
               /\ processing' = processing
       /\ mtime' # mtime => threads' = threads]_vars

\* a thread was turned away while another one was handling the same path,
\* and an earlier handling of that path had ended in an exception
C30_Witness ==
    \E i, j, k \in ThreadIds :
        /\ threads[i].out = "ignored"
        /\ j \in Handling
        /\ threads[k].out = "error"
        /\ threads[j].file = threads[i].file
        /\ threads[k].file = threads[i].file
        /\ mtime[threads[i].file] > 0

\* C26: the event-loop thread never blocks waiting for a future whose
\* coroutine was scheduled onto the same loop.
C26_LoopNeverBlocks == [][~LoopWaitsOnOwnFuture]_vars

\* C27: no interleaving of the watcher thread with the loop loses,
\* duplicates or reorders retry items: whenever no queue operation is under
\* way, the queue in memory and the saved file both hold exactly the items
\* put and not yet taken, in the order they were put.
C27_QueueIntact ==
    LET pending == SelectSeq([k \in 1..nPut |-> k], LAMBDA k : k \notin taken)
    IN (\A a \in QueueCallers : callers[a].pc = "idle")
          => rq = pending /\ rqFile = pending

\* C29: once the stop signal has been handled, the registry of observers is
\* empty.
C29_RegistryEmptyAfterStop == stopped => observers = <<>>

\* the chunk indices the channel received in attempt a, in arrival order
ReceivedIn(a) ==
    LET mine == SelectSeq(chan, LAMBDA e : e[1] = a)
    IN [k \in 1..Len(mine) |-> mine[k][2]]

\* C31: in every attempt the channel receives the chunks in their original
\* order, without a gap, each after the one before it succeeded; after a
\* failure at chunk i the attempt delivers exactly the chunks before i.
C31_ChunksInOrder ==
    \A a \in 1..MaxAttempts :
        /\ ReceivedIn(a) = [k \in 1..Len(ReceivedIn(a)) |-> k]
        /\ Len(ReceivedIn(a)) <= Len(Outgoing)
        /\ failedAt[a] # 0 => Len(ReceivedIn(a)) = failedAt[a] - 1
        /\ (sending.attempt = a /\ sending.state = "done")
              => Len(ReceivedIn(a)) = Len(Outgoing)

\* a payload of three chunks or more failed at its second chunk and was
\* delivered completely by the next attempt
C31_Witness ==
    /\ Len(Outgoing) >= 3
    /\ failedAt[1] = 2
    /\ sending.attempt = 2
    /\ sending.state = "done"

\* C32: when the log call succeeded on a running, paused or completed
\* container and the tail holds markers, the one written last gives the
\* reported iteration and progress (0 for a total of 0); otherwise the
\* status reports iteration 0 and progress 0.
C32_LastMarkerWins ==
    LET hits == SelectSeq(progress.window, LAMBDA l : l.marker # NoMarker)
        last == hits[Len(hits)].marker
    IN progress.call # "none" =>
          IF /\ progress.call = "ok"
             /\ progress.state \in {"running", "paused", "completed"}
             /\ hits # <<>>
          THEN /\ progress.current = last[1]
               /\ progress.percent =
                     IF last[2] > 0 THEN (last[1] * 100) \div last[2] ELSE 0
          ELSE progress.current = 0 /\ progress.percent = 0

\* C33: a log with a marker line gives exactly the lines after the first
\* marker up to the first terminator after it (blank lines at both ends
\* aside), and nothing when there are none; a log without a marker gives its
\* last non-empty, non-bracket lines, and no result when it has none.
C33_MarkerThenFallback ==
    LET log == extracted.log
        markers == {i \in 1..Len(log) : log[i] = "marker"}
        first == CHOOSE i \in markers : \A j \in markers : i <= j
        ends == {i \in first + 1..Len(log) : log[i] = "end"}
        stop == IF ends = {} THEN Len(log) + 1
                ELSE CHOOSE i \in ends : \A j \in ends : i <= j
        between == StripLines(log, [k \in 1..stop - first - 1 |-> first + k])
    IN IF markers # {}
       THEN IF between = <<>> THEN extracted.result \in {<<>>, NoResult}
            ELSE extracted.result = between
       ELSE IF SignificantLines(log) = <<>> THEN extracted.result = NoResult
            ELSE extracted.result = LastLines(SignificantLines(log))

\* C34: a reply started from the Reply button of a notification is written
\* to the inbound directory of the project the notification came from, and
\* the pending-reply state is cleared at that moment.
C34_ReplyReachesOrigin ==
    [][lastReply' # lastReply =>
          /\ lastReply'.target = lastReply'.origin
          /\ replyTo' = NoReplyTo]_vars

\* C35: no payload is both delivered and waiting in the retry queue: an
\* observation whose send succeeded has no item in the queue.
C35_NotDeliveredAndEnqueued ==
    \A o \in ObsIds : delivered[o] >= 1 => o \notin QueueObs(queue)

\* C36: used from one thread, whenever no queue operation is under way the
\* file holds exactly the items of the queue in memory, in the same order,
\* which is the order in which they were put, each item once; this also
\* holds after the file was loaded at a restart.
C36_FileMirrorsQueue ==
    callers["loop"].pc = "idle" =>
        /\ rqFile = rq
        /\ \A i, j \in 1..Len(rq) : i < j => rq[i] < rq[j]
        /\ \A i \in 1..Len(rq) : rq[i] \in 1..nPut

\* two items are waiting in memory and in the file after an earlier one
\* was taken
C36_Witness ==
    /\ callers["loop"].pc = "idle"
    /\ taken = {1}
    /\ rq = <<2, 3>>
    /\ rqFile = <<2, 3>>

\* C37: recording a question never leaves the handler waiting or failing:
\* add_question neither blocks on the lock nor raises.
C37_AddQuestionReturns == asker \notin {"blocked", "raised"}

\* C38: an instance that has stopped while max_wait has not yet elapsed is
\* found stopped by a poll: the monitor sleeping on it wakes before the
\* deadline, so that the job ends completed and not in the timeout branch.
C38_StoppedInTimeIsPolled ==
    \A j \in JobIds :
        (/\ jobs[j].pc = "sleep"
         /\ instances[jobs[j].name] # "running"
         /\ DeadlineOpen(jobs[j].start, now))
        => DeadlineOpen(jobs[j].start, jobs[j].wake)

\* C39: every accepted message is stored in a file of its own: each message
\* accepted so far is the content of some file of some inbound directory.
C39_NoMessageOverwritten ==
    \A m \in 1..nMsg :
        \E p \in ProjectNames : \E f \in DOMAIN inbound[p] : inbound[p][f] = m

\* C40: a call through retry_middleware ends by returning at the first
\* call of the handler that succeeds, after exactly that many calls and at
\* most max_retries of them, or, when max_retries calls have all failed, by
\* raising the error of the last of them after exactly max_retries calls; it
\* ends in no other way.
C40_RetryUntilSuccessOrLimit ==
    LET r == retrying
        failedBefore(n) == \A c \in 1..n : Raises(r.script, c)
    IN /\ r.pc = "returned" =>
            /\ r.calls <= r.max
            /\ ~Raises(r.script, r.calls)
            /\ failedBefore(r.calls - 1)
       /\ r.pc = "raised" =>
            /\ r.calls = r.max
            /\ r.error = r.max
            /\ failedBefore(r.max)
       /\ r.pc # "TypeError"

====
